---- MODULE Spec2Model ----
\* Model of jaenvtix_setup.py: the JDK/Maven provisioning pipeline, its
\* resilient fetcher, the toolchains.xml merge and the VS Code settings merge.
EXTENDS Integers, Sequences, FiniteSets, TLC

\* ---------------------------------------------------------------- bounds
\* Largest `attempts` argument tried on download_with_retries.
MaxAttempts == 3
\* Largest number of children of <toolchains> in an initial registry document.
MaxEntries == 2
\* Number of merge_toolchains calls in one behaviour of the registry model.
MaxMerges == 2
\* Number of update_vscode_settings calls in one behaviour of the settings model.
MaxUpdates == 2
\* Number of process_project calls in one behaviour of the pipeline model.
MaxProjectRuns == 2
\* Longest version text tried on normalize_java_version.
MaxTextLen == 3

\* ---------------------------------------------------------------- constants
\* download_with_retries(url, dest, attempts=3, ...)
DefaultAttempts == 3

\* Path.home(); paths are sequences of path components.
HOME == <<"~">>
JAENVTIX_HOME == HOME \o <<".jaenvtix">>
TEMP_DIR == JAENVTIX_HOME \o <<"temp">>
M2_DIR == HOME \o <<".m2">>
DEFAULT_MAVEN_VERSION == "3.9.11"

\* Path helpers (pathlib): p / name, p.parent, p.name, "p lies below q".
Child(p, name) == Append(p, name)
Parent(p) == SubSeq(p, 1, Len(p) - 1)
Name(p) == p[Len(p)]
IsPrefix(q, p) == Len(q) <= Len(p) /\ SubSeq(p, 1, Len(q)) = q
Below(p, q) == Len(p) > Len(q) /\ IsPrefix(q, p)

\* ---------------------------------------------------------------- catalog
\* A missing mapping (the functions' None) is the empty sequence.
OracleLatestUrl(v, os, arch) ==
    LET frag == CASE os = "windows" /\ arch = "x86_64" -> <<"windows-x64", "zip">>
                  [] os = "linux" /\ arch = "x86_64" -> <<"linux-x64", "tar.gz">>
                  [] os = "linux" /\ arch = "aarch64" -> <<"linux-aarch64", "tar.gz">>
                  [] os = "macos" /\ arch = "x86_64" -> <<"macos-x64", "tar.gz">>
                  [] os = "macos" /\ arch = "aarch64" -> <<"macos-aarch64", "tar.gz">>
                  [] OTHER -> <<>>
    IN  IF frag = <<>> THEN <<>>
        ELSE << "https://download.oracle.com/java/" \o v \o "/latest/jdk-" \o v
                    \o "_" \o frag[1] \o "_bin." \o frag[2], frag[2] >>

\* A raised ValueError is the empty sequence, a built JdkDist a one-element one.
OracleLatestDist(v, os, arch) ==
    LET r == OracleLatestUrl(v, os, arch)
    IN  IF r = <<>> THEN <<>>
        ELSE << [name |-> "Oracle" \o v, url |-> r[1], ext |-> r[2]] >>

OsFragmentTemurin(os) ==
    CASE os = "windows" -> "windows" [] os = "linux" -> "linux"
      [] os = "macos" -> "mac" [] OTHER -> ""

OsFragmentCorretto(os) ==
    CASE os = "windows" -> "windows" [] os = "linux" -> "linux"
      [] os = "macos" -> "macos" [] OTHER -> ""

ArchFragment(arch) ==
    CASE arch = "x86_64" -> "x64" [] arch = "aarch64" -> "aarch64" [] OTHER -> ""

TemurinLatestUrl(v, os, arch) ==
    IF OsFragmentTemurin(os) = "" \/ ArchFragment(arch) = "" THEN <<>>
    ELSE << "https://api.adoptium.net/v3/binary/latest/" \o v \o "/ga/"
                \o OsFragmentTemurin(os) \o "/" \o ArchFragment(arch)
                \o "/jdk/hotspot/normal/eclipse",
            IF os = "windows" THEN "zip" ELSE "tar.gz" >>

TemurinLatestDist(v, os, arch) ==
    LET r == TemurinLatestUrl(v, os, arch)
    IN  IF r = <<>> THEN <<>>
        ELSE << [name |-> "Temurin" \o v, url |-> r[1], ext |-> r[2]] >>

CorrettoLatestUrl(v, os, arch) ==
    IF OsFragmentCorretto(os) = "" \/ ArchFragment(arch) = "" THEN <<>>
    ELSE << "https://corretto.aws/downloads/latest/amazon-corretto-" \o v \o "-"
                \o ArchFragment(arch) \o "-" \o OsFragmentCorretto(os) \o "-jdk."
                \o (IF os = "windows" THEN "zip" ELSE "tar.gz"),
            IF os = "windows" THEN "zip" ELSE "tar.gz" >>

CorrettoLatestDist(v, os, arch) ==
    LET r == CorrettoLatestUrl(v, os, arch)
    IN  IF r = <<>> THEN <<>>
        ELSE << [name |-> "Corretto" \o v, url |-> r[1], ext |-> r[2]] >>

\* The (os, arch) keys every version of the static table has.
StaticPlatforms ==
    { <<"windows", "x86_64">>, <<"linux", "x86_64">>, <<"linux", "aarch64">>,
      <<"macos", "x86_64">>, <<"macos", "aarch64">> }

\* JDK_URLS.get(java_version, {}).get((os_name, arch)); None is the empty list.
JDK_URLS(v, os, arch) ==
    IF <<os, arch>> \notin StaticPlatforms THEN <<>>
    ELSE IF v \in {"8", "11", "17"}
         THEN CorrettoLatestDist(v, os, arch) \o TemurinLatestDist(v, os, arch)
    ELSE IF v \in {"21", "25"} THEN OracleLatestDist(v, os, arch)
    ELSE <<>>

\* A lookup that adds the synthesized candidates after the static ones.
SelectStaticThenDynamic(v, os, arch) ==
    JDK_URLS(v, os, arch)
    \o (IF v \notin {"8", "11", "17"} THEN OracleLatestDist(v, os, arch) ELSE <<>>)
    \o CorrettoLatestDist(v, os, arch) \o TemurinLatestDist(v, os, arch)

select_jdk_dist(v, os, arch) ==
    LET static_list == JDK_URLS(v, os, arch)
    IN  IF static_list # <<>> THEN static_list
        ELSE (IF v \notin {"8", "11", "17"} THEN OracleLatestDist(v, os, arch) ELSE <<>>)
             \o CorrettoLatestDist(v, os, arch) \o TemurinLatestDist(v, os, arch)

\* MAVEN_URLS[DEFAULT_MAVEN_VERSION].get(os_name) with the chosen extension.
resolve_maven_distro(os) ==
    IF os \in {"windows", "linux", "macos"}
    THEN << "https://dlcdn.apache.org/maven/maven-3/3.9.11/binaries/apache-maven-3.9.11-bin."
                \o (IF os = "windows" THEN "zip" ELSE "tar.gz"),
            IF os = "windows" THEN "zip" ELSE "tar.gz" >>
    ELSE <<>>

\* ---------------------------------------------------------------- fetcher
\* What one urlopen/copy attempt does: "ok" writes the whole body, "neterr"
\* fails before dest is opened, "ioerr0"/"ioerr" fail after dest was truncated
\* (leaving it empty / partly written).
Outcomes == {"ok", "neterr", "ioerr0", "ioerr"}

\* A file's content: the kind of archive it holds and the name of the archive's
\* top-level directory. "absent" stands for a path that does not exist, "empty"
\* for a zero-byte file, "partial" for a body cut short.
FileAbsent == [kind |-> "absent", top |-> ""]
FileEmpty == [kind |-> "empty", top |-> ""]
FilePartial(body) == [kind |-> "partial", top |-> body.top]

AfterFailedAttempt(out, body, file) ==
    CASE out = "neterr" -> file
      [] out = "ioerr0" -> FileEmpty
      [] OTHER -> FilePartial(body)

RECURSIVE DownloadLoopSkipLast(_, _, _, _, _, _)
\* A loop over range(1, attempts): one attempt short.
DownloadLoopSkipLast(i, attempts, outs, body, file, sleeps) ==
    IF i >= attempts THEN [ok |-> FALSE, made |-> IF attempts = 0 THEN 0 ELSE i - 1,
                           file |-> file, sleeps |-> sleeps]
    ELSE IF outs[i] = "ok" THEN [ok |-> TRUE, made |-> i, file |-> body, sleeps |-> sleeps]
    ELSE DownloadLoopSkipLast(i + 1, attempts, outs, body,
                              AfterFailedAttempt(outs[i], body, file), Append(sleeps, i))

RECURSIVE DownloadLoop(_, _, _, _, _, _)
\* The body of `for i in range(1, attempts + 1)`, from attempt i on.
DownloadLoop(i, attempts, outs, body, file, sleeps) ==
    IF i > attempts THEN [ok |-> FALSE, made |-> i - 1, file |-> file, sleeps |-> sleeps]
    ELSE IF outs[i] = "ok" THEN [ok |-> TRUE, made |-> i, file |-> body, sleeps |-> sleeps]
    ELSE DownloadLoop(i + 1, attempts, outs, body,
                      AfterFailedAttempt(outs[i], body, file), Append(sleeps, i))

\* download_with_retries: outs[i] is what attempt i meets, body what the server
\* sends, file the destination's content before. sleeps lists the exponents i of
\* the waits backoff ** i.
download_with_retries(outs, body, file, attempts) ==
    DownloadLoop(1, attempts, outs, body, file, <<>>)

\* ---------------------------------------------------------------- registry
\* toolchains.xml: absent, unparsable, or the children of its root element.
\* A child: its tag, whether it has <provides> and the <version> text below it
\* ("" when missing or empty), whether it has <configuration>, and the
\* <jdkHome> below that (<<>> when there is no such node).
RegAbsent == [st |-> "absent", entries |-> <<>>]
RegMalformed == [st |-> "malformed", entries |-> <<>>]
RegDoc(es) == [st |-> "doc", entries |-> es]

NoHome == <<>>

\* The <toolchain> of the template string.
TemplateEntry(v, home) ==
    [tag |-> "toolchain", hasProv |-> TRUE, version |-> v,
     hasConf |-> TRUE, hasHome |-> TRUE, home |-> home]

\* The entry the scan stops at: the first <toolchain> with <provides>, the
\* target version and a <configuration>.
MatchIndices(es, v) ==
    { i \in 1..Len(es) : /\ es[i].tag = "toolchain"
                         /\ es[i].hasProv
                         /\ es[i].version = v
                         /\ es[i].hasConf }

Min(S) == CHOOSE m \in S : \A n \in S : m <= n

\* A merge with no try/except around the parse.
MergeNoRecover(file, v, home) ==
    IF file.st = "absent" THEN [file |-> RegDoc(<<TemplateEntry(v, home)>>), raised |-> FALSE]
    ELSE IF file.st = "malformed" THEN [file |-> file, raised |-> TRUE]
    ELSE LET es == file.entries
             hit == MatchIndices(es, v)
         IN  IF hit # {}
             THEN [file |-> RegDoc([es EXCEPT ![Min(hit)].hasHome = TRUE,
                                              ![Min(hit)].home = home]),
                   raised |-> FALSE]
             ELSE [file |-> RegDoc(Append(es, TemplateEntry(v, home))), raised |-> FALSE]

\* A merge that appends without scanning for the version.
MergeAlwaysAppend(file, v, home) ==
    IF file.st # "doc" THEN [file |-> RegDoc(<<TemplateEntry(v, home)>>), raised |-> FALSE]
    ELSE [file |-> RegDoc(Append(file.entries, TemplateEntry(v, home))), raised |-> FALSE]

\* A merge that rewrites the file with the template whenever it exists.
MergeReplaceAll(file, v, home) ==
    [file |-> RegDoc(<<TemplateEntry(v, home)>>), raised |-> FALSE]

\* merge_toolchains(java_version, java_home): the file written and whether an
\* exception reaches the caller.
merge_toolchains(file, v, home) ==
    IF file.st = "absent" THEN [file |-> RegDoc(<<TemplateEntry(v, home)>>), raised |-> FALSE]
    ELSE IF file.st = "malformed"
         THEN [file |-> RegDoc(<<TemplateEntry(v, home)>>), raised |-> FALSE]
    ELSE LET es == file.entries
             hit == MatchIndices(es, v)
         IN  IF hit # {}
             THEN [file |-> RegDoc([es EXCEPT ![Min(hit)].hasHome = TRUE,
                                              ![Min(hit)].home = home]),
                   raised |-> FALSE]
             ELSE [file |-> RegDoc(Append(es, TemplateEntry(v, home))), raised |-> FALSE]

\* ---------------------------------------------------------------- editor settings
\* .vscode/settings.json: absent, unparsable, a JSON value that is no object,
\* or an object (a function from its keys to values; values are tuples).
SetAbsent == [st |-> "absent", data |-> <<>>]
SetMalformed == [st |-> "malformed", data |-> <<>>]
SetNonObject == [st |-> "nonobject", data |-> <<>>]
SetObject(d) == [st |-> "object", data |-> d]

\* A rendering that keeps the absolute path.
AsAbsolutePath(target) == target

\* as_vscode_user_path: a path below HOME is rendered with ${userHome}.
as_vscode_user_path(target) ==
    IF IsPrefix(HOME, target)
    THEN <<"${userHome}">> \o SubSeq(target, Len(HOME) + 1, Len(target))
    ELSE target

\* A key set that still emits the legacy java.home key.
AssignedWithLegacyHome(java_home, maven_bin) ==
    [k \in { "java.home", "java.jdt.ls.java.home", "java.jdt.ls.lombokSupport.enabled",
             "maven.executable.preferMavenWrapper", "maven.executable.path",
             "java.compile.nullAnalysis.mode",
             "java.configuration.updateBuildConfiguration",
             "java.configuration.maven.userSettings" } |->
        CASE k \in {"java.home", "java.jdt.ls.java.home"} -> as_vscode_user_path(java_home)
          [] k = "maven.executable.path" -> as_vscode_user_path(maven_bin)
          [] k = "java.configuration.maven.userSettings" ->
                 as_vscode_user_path(Child(M2_DIR, "settings.xml"))
          [] k \in {"java.compile.nullAnalysis.mode",
                    "java.configuration.updateBuildConfiguration"} -> <<"automatic">>
          [] OTHER -> <<"true">>]

\* The keys the function assigns, with the values it assigns.
AssignedSettings(java_home, maven_bin) ==
    [k \in { "java.jdt.ls.java.home", "java.jdt.ls.lombokSupport.enabled",
             "maven.executable.preferMavenWrapper", "maven.executable.path",
             "java.compile.nullAnalysis.mode",
             "java.configuration.updateBuildConfiguration",
             "java.configuration.maven.userSettings" } |->
        CASE k = "java.jdt.ls.java.home" -> as_vscode_user_path(java_home)
          [] k = "java.jdt.ls.lombokSupport.enabled" -> <<"true">>
          [] k = "maven.executable.preferMavenWrapper" -> <<"true">>
          [] k = "maven.executable.path" -> as_vscode_user_path(maven_bin)
          [] k = "java.compile.nullAnalysis.mode" -> <<"automatic">>
          [] k = "java.configuration.updateBuildConfiguration" -> <<"automatic">>
          [] OTHER -> as_vscode_user_path(Child(M2_DIR, "settings.xml"))]

\* An update that starts from an empty object whatever the file holds.
UpdateFromScratch(file, java_home, maven_bin) ==
    IF file.st = "nonobject" THEN [file |-> file, raised |-> TRUE]
    ELSE [file |-> SetObject(AssignedSettings(java_home, maven_bin)), raised |-> FALSE]

\* update_vscode_settings(project_dir, java_home, maven_bin): the file written
\* and whether an exception reaches the caller (data.pop on a non-object).
update_vscode_settings(file, java_home, maven_bin) ==
    IF file.st = "nonobject" THEN [file |-> file, raised |-> TRUE]
    ELSE LET data == IF file.st = "object" THEN file.data ELSE <<>>
             kept == [k \in (DOMAIN data) \ {"java.home"} |-> data[k]]
         IN  [file |-> SetObject(AssignedSettings(java_home, maven_bin) @@ kept),
              raised |-> FALSE]

\* ---------------------------------------------------------------- filesystem
\* The tree below HOME: fs.dirs is the set of directories, fs.files maps each
\* regular file to its content.
Exists(F, p) == p \in F.dirs \/ p \in DOMAIN F.files
IsDir(F, p) == p \in F.dirs
Iterdir(F, d) == { p \in F.dirs \cup DOMAIN F.files : Len(p) = Len(d) + 1 /\ IsPrefix(d, p) }

\* Path.mkdir(parents=True, exist_ok=True) raises when p or a parent of p is a
\* regular file.
Blocked(F, p) == \E k \in 1..Len(p) : SubSeq(p, 1, k) \in DOMAIN F.files

\* Path.mkdir(parents=True, exist_ok=True)
MkdirP(F, p) == [F EXCEPT !.dirs = @ \cup { SubSeq(p, 1, k) : k \in 1..Len(p) }]

\* shutil.rmtree(p, ignore_errors=True) on a directory, unlink on a file.
Remove(F, p) ==
    [dirs |-> { q \in F.dirs : ~IsPrefix(p, q) },
     files |-> [q \in { q \in DOMAIN F.files : ~IsPrefix(p, q) } |-> F.files[q]]]

RECURSIVE RemoveAll(_, _)
RemoveAll(F, ps) ==
    IF ps = {} THEN F
    ELSE LET p == CHOOSE q \in ps : TRUE
         IN  RemoveAll(Remove(F, p), ps \ {p})

\* open(dest, "wb") followed by a copy: "absent" leaves the path as it was.
WriteFile(F, p, content) ==
    IF content.kind = "absent" THEN F
    ELSE [F EXCEPT !.files = (p :> content) @@ @]

ReadFile(F, p) == IF p \in DOMAIN F.files THEN F.files[p] ELSE FileAbsent

\* shutil.move(src, dst) of a directory onto a path that does not exist.
MoveDir(F, src, dst) ==
    LET re(q) == dst \o SubSeq(q, Len(src) + 1, Len(q))
        moved == { q \in DOMAIN F.files : IsPrefix(src, q) }
    IN  [dirs |-> { q \in F.dirs : ~IsPrefix(src, q) }
                    \cup { re(q) : q \in { d \in F.dirs : IsPrefix(src, d) } },
         files |-> [q \in (DOMAIN F.files \ moved) \cup { re(m) : m \in moved } |->
                       IF q \in DOMAIN F.files /\ q \notin moved THEN F.files[q]
                       ELSE F.files[CHOOSE m \in moved : re(m) = q]]]

\* ---------------------------------------------------------------- archives
\* What the members of an archive are, relative to the extraction directory.
Executable == [kind |-> "exe", top |-> ""]

\* The layouts a JDK archive may turn out to have when it is opened.
JdkLayouts == {"flat", "deep", "nobin", "corrupt"}

ArchiveDirs(c) ==
    CASE c.kind = "flat" -> { <<c.top>>, <<c.top, "bin">> }
      [] c.kind = "deep" -> { <<c.top>>, <<c.top, "Home">>, <<c.top, "Home", "bin">> }
      [] c.kind = "nobin" -> { <<c.top>>, <<c.top, "lib">> }
      [] c.kind = "mvn" -> { <<c.top>>, <<c.top, "bin">> }
      [] c.kind = "mvn-nobin" -> { <<c.top>>, <<c.top, "lib">> }
      [] c.kind = "mvn-noroot" -> { <<c.top>>, <<c.top, "bin">> }
      [] OTHER -> {}

ArchiveFiles(c) ==
    IF c.kind = "mvn" THEN { <<c.top, "bin", "mvn">>, <<c.top, "bin", "mvn.cmd">> } ELSE {}

\* The members a failing extraction has written before it failed: a damaged
\* JDK archive ("corrupt") yields its first members, anything else nothing.
PartialDirs(c) ==
    IF c.kind = "corrupt" THEN { <<c.top>>, <<c.top, "bin">> } ELSE {}

Unpack(F, dest, ds, fls) ==
    [dirs |-> F.dirs \cup { dest \o d : d \in ds },
     files |-> [q \in DOMAIN F.files \cup { dest \o f : f \in fls } |->
                   IF q \in { dest \o f : f \in fls } THEN Executable ELSE F.files[q]]]

\* What opening a file as an archive may find: a fetched JDK archive (kind
\* "jdk") is opaque until it is opened, and has any one of JdkLayouts.
Opened(c) ==
    IF c.kind = "jdk" THEN { [kind |-> k, top |-> c.top] : k \in JdkLayouts } ELSE { c }

\* extract_archive(archive_path, dest_dir): every result the archive allows;
\* ok is the function's return value.
extract_archive(F, ext, archive, dest) ==
    IF ext \notin {"zip", "tar.gz", "tgz"} THEN { [ok |-> FALSE, fs |-> F] }
    ELSE UNION { IF c.kind \in {"flat", "deep", "nobin", "mvn", "mvn-nobin", "mvn-noroot"}
                 THEN { [ok |-> TRUE, fs |-> Unpack(F, dest, ArchiveDirs(c), ArchiveFiles(c))] }
                 ELSE { [ok |-> FALSE, fs |-> Unpack(F, dest, PartialDirs(c), {})] }
               : c \in Opened(ReadFile(F, archive)) }

\* ---------------------------------------------------------------- JDK install
jdk_base(v) == Child(JAENVTIX_HOME, "jdk-" \o v)

\* The children a scan `for ch in base.iterdir(): if ch.is_dir() and
\* (ch / "bin").exists()` may stop at; the order of iterdir is arbitrary.
HomesAtDepth1(F, base) ==
    { ch \in Iterdir(F, base) : IsDir(F, ch) /\ Exists(F, Child(ch, "bin")) }

\* locate_existing_jdk(java_version): the homes it may return; {} is None.
locate_existing_jdk(F, v) ==
    IF ~Exists(F, jdk_base(v)) THEN {} ELSE HomesAtDepth1(F, jdk_base(v))

\* An install that extracts on top of what is there.
CleanupNothing(F, base) == F

\* A cleanup that spares nothing.
CleanupEverything(F, base) == RemoveAll(F, Iterdir(F, base))

\* _cleanup_old_jdk_content(jdk_base)
cleanup_old_jdk_content(F, base) ==
    RemoveAll(F, { ch \in Iterdir(F, base) : Name(ch) # "mvn-custom" })

\* Lines 837-845: the homes the discovery after extraction may name; {} when
\* no layout is found.
DiscoverHome(F, base) ==
    IF HomesAtDepth1(F, base) # {} THEN HomesAtDepth1(F, base)
    ELSE { Parent(p) : p \in { q \in F.dirs : IsPrefix(base, q) /\ Name(q) = "bin" } }

\* install_jdk_from_archive(java_version, archive, dist): every result; home is
\* <<>> for None.
install_jdk_from_archive(F, v, archive, ext) ==
    LET base == jdk_base(v)
        F1 == cleanup_old_jdk_content(MkdirP(F, base), base)
    IN  UNION { IF ~r.ok THEN { [home |-> <<>>, fs |-> r.fs] }
                ELSE IF DiscoverHome(r.fs, base) = {} THEN { [home |-> <<>>, fs |-> r.fs] }
                ELSE { [home |-> h, fs |-> r.fs] : h \in DiscoverHome(r.fs, base) }
              : r \in extract_archive(F1, ext, archive, base) }

\* ---------------------------------------------------------------- Maven install
mvn_exe_name(os) == IF os = "windows" THEN "mvn.cmd" ELSE "mvn"

\* locate_existing_maven(java_version, os_name): <<>> is None.
locate_existing_maven(F, v, os) ==
    LET mvn_custom == Child(jdk_base(v), "mvn-custom")
        mvn_exe == Child(Child(mvn_custom, "bin"), mvn_exe_name(os))
    IN  IF Exists(F, mvn_exe) THEN <<mvn_custom, mvn_exe>> ELSE <<>>

maven_extract_dir == Child(TEMP_DIR, "maven-extract-" \o DEFAULT_MAVEN_VERSION)

\* _extract_maven_archive(archive): every result; root is <<>> for None.
extract_maven_archive(F, ext, archive) ==
    LET F1 == MkdirP(Remove(F, maven_extract_dir), maven_extract_dir)
    IN  { IF ~r.ok THEN [root |-> <<>>, fs |-> r.fs]
          ELSE LET roots == { ch \in Iterdir(r.fs, maven_extract_dir) :
                                 IsDir(r.fs, ch) /\ Name(ch) = "apache-maven-" \o DEFAULT_MAVEN_VERSION }
               IN  IF roots = {} THEN [root |-> <<>>, fs |-> r.fs]
                   ELSE [root |-> CHOOSE x \in roots : TRUE, fs |-> r.fs]
        : r \in extract_archive(F1, ext, archive, maven_extract_dir) }

\* install_maven_from_archive(java_version, os_name, archive): every result;
\* res is <<>> for None, else <<mvn_custom, mvn_exe>>.
install_maven_from_archive(F, v, os, ext, archive) ==
    LET base == jdk_base(v)
        mvn_custom == Child(base, "mvn-custom")
        mvn_exe == Child(Child(mvn_custom, "bin"), mvn_exe_name(os))
    IN  { IF x.root = <<>> THEN [res |-> <<>>, fs |-> x.fs]
          ELSE [res |-> <<mvn_custom, mvn_exe>>,
                fs |-> Remove(MoveDir(Remove(x.fs, mvn_custom), x.root, mvn_custom),
                              maven_extract_dir)]
        : x \in extract_maven_archive(MkdirP(F, base), ext, archive) }

\* ---------------------------------------------------------------- version resolver
\* Texts are sequences of one-character strings.
Digits == {"0", "1", "2", "3", "4", "5", "6", "7", "8", "9"}

RECURSIVE Join(_)
Join(cs) == IF cs = <<>> THEN "" ELSE cs[1] \o Join(Tail(cs))

RECURSIVE LStrip(_)
LStrip(cs) == IF cs # <<>> /\ cs[1] = " " THEN LStrip(Tail(cs)) ELSE cs

RECURSIVE RStrip(_)
RStrip(cs) ==
    IF cs # <<>> /\ cs[Len(cs)] = " " THEN RStrip(SubSeq(cs, 1, Len(cs) - 1)) ELSE cs

Strip(cs) == LStrip(RStrip(cs))

RECURSIVE UpTo(_, _)
\* The part of cs before the first occurrence of ch.
UpTo(cs, ch) ==
    IF cs = <<>> \/ cs[1] = ch THEN <<>> ELSE <<cs[1]>> \o UpTo(Tail(cs), ch)

IsDigitRun(cs) == cs # <<>> /\ \A i \in 1..Len(cs) : cs[i] \in Digits

\* re.match(r"^(\d{1,2})", v): one or two leading digits.
LeadingDigits(cs) ==
    IF Len(cs) >= 2 /\ cs[1] \in Digits /\ cs[2] \in Digits THEN SubSeq(cs, 1, 2)
    ELSE IF Len(cs) >= 1 /\ cs[1] \in Digits THEN SubSeq(cs, 1, 1)
    ELSE <<>>

\* normalize_java_version(v); "" is None.
normalize_java_version(raw) ==
    LET v == Strip(raw)
        second == UpTo(SubSeq(v, 3, Len(v)), ".")
    IN  IF Len(v) >= 2 /\ v[1] = "1" /\ v[2] = "." /\ IsDigitRun(second) THEN Join(second)
        ELSE Join(LeadingDigits(v))

\* A pom.xml: whether it parses, the text of the first non-blank java.version
\* property, the <release> and <compilerVersion> of the first
\* maven-compiler-plugin and the jdkToolchain version (<<>> when missing).
\* parse_java_version_from_pom(pom_path); "" is None.
parse_java_version_from_pom(pm) ==
    IF ~pm.parsable THEN ""
    ELSE IF Strip(pm.javaVersion) # <<>> THEN normalize_java_version(Strip(pm.javaVersion))
    ELSE IF Strip(pm.release) # <<>> THEN normalize_java_version(Strip(pm.release))
    ELSE IF Strip(pm.compilerVersion) # <<>>
         THEN normalize_java_version(Strip(pm.compilerVersion))
    ELSE IF Strip(pm.toolchain) # <<>> THEN normalize_java_version(Strip(pm.toolchain))
    ELSE ""

\* ---------------------------------------------------------------- state
VARIABLES
    osarch,       \* what detect_os_arch() returns on this machine
    pom,          \* each project's pom.xml
    fs,           \* the directories and files below HOME
    toolchains,   \* ~/.m2/toolchains.xml
    settingsXml,  \* ~/.m2/settings.xml: "absent", "skeleton", "empty" or "user"
    vscode,       \* each project's .vscode/settings.json
    mainPc,       \* main(): "idle" or "loop"
    projRuns,     \* process_project calls started so far
    discovered,   \* find_projects_with_pom(root) of the running main()
    projIdx,      \* position of the for loop of main()
    pc,           \* position of process_project: the step to run next
    ctx,          \* the ProjectContext
    ran,          \* the steps ValidationChain.run has executed, with results
    jdkW,         \* the worker running download_jdk_package
    mvnW,         \* the worker running download_maven_package
    prov,         \* the locals of RuntimeProvisionStep.execute
    events,       \* fetches and installs of the project being processed
    last,         \* what the latest finished process_project left
    prev,         \* what the process_project before it left
    reported,     \* projects logged as configured by the running main()
    hist,         \* the latest call of the function under study
    calls,        \* number of such calls made
    processed     \* projects the running main() is done with, and how each ended

vars == << osarch, pom, fs, toolchains, settingsXml, vscode, mainPc, projRuns,
           discovered, projIdx, pc, ctx, ran, jdkW, mvnW, prov, events, last,
           prev, reported, hist, calls, processed >>

\* ---------------------------------------------------------------- pipeline: inputs
Projects == {"root", "sub"}

Text(str) == CASE str = "21" -> <<"2", "1">> [] str = "22" -> <<"2", "2">> [] OTHER -> <<>>

PomWith(prop, rel) ==
    [parsable |-> TRUE, javaVersion |-> Text(prop), release |-> Text(rel),
     compilerVersion |-> <<>>, toolchain |-> <<>>]

\* The workspaces tried: the root project declares java.version 22 (three
\* candidates, none of them in the static table) or nothing, the sub-project a
\* compiler release of 21 (one candidate).
PomChoices ==
    { [p \in Projects |-> IF p = "root" THEN PomWith(r, "") ELSE PomWith("", "21")]
      : r \in {"22", ""} }

\* The machines tried: supported, an unknown OS, an unsupported architecture.
OsArchChoices ==
    { <<"linux", "x86_64">>, <<"freebsd", "x86_64">>, <<"linux", "riscv64">> }

\* What find_projects_with_pom may return: the root first, then the children.
DiscoveredChoices == { <<>>, <<"root">>, <<"root", "sub">> }

\* What the attempts of one JDK fetch / one Maven fetch meet.
JdkOutcomes == [1..DefaultAttempts -> {"ok", "neterr"}]
MvnOutcomes == [1..DefaultAttempts -> {"ok", "neterr", "ioerr"}]

\* What a JDK endpoint / the Maven mirror may send.
JdkBodies(dist) == { [kind |-> "jdk", top |-> dist.name] }

MvnBodies ==
    { [kind |-> "mvn", top |-> "apache-maven-" \o DEFAULT_MAVEN_VERSION],
      [kind |-> "mvn-nobin", top |-> "apache-maven-" \o DEFAULT_MAVEN_VERSION],
      [kind |-> "mvn-noroot", top |-> "maven"],
      [kind |-> "mvn-corrupt", top |-> "apache-maven-" \o DEFAULT_MAVEN_VERSION] }

\* An entry somebody else put in the registry: version 17, no <configuration>.
ForeignEntry ==
    [tag |-> "toolchain", hasProv |-> TRUE, version |-> "17",
     hasConf |-> FALSE, hasHome |-> FALSE, home |-> NoHome]

\* The configuration files found on the machine: the registry, settings.xml
\* and the root project's settings.json.
ConfigChoices ==
    { <<RegAbsent, "absent", SetAbsent>>,
      <<RegMalformed, "user",
        SetObject([k \in {"java.home", "editor.tabSize"} |-> <<"4">>])>>,
      <<RegDoc(<<ForeignEntry>>), "empty", SetNonObject>> }

\* ---------------------------------------------------------------- pipeline: idle values
NoCtx ==
    [project_dir |-> "", java_version |-> "", os_name |-> "", arch |-> "",
     jdk_home |-> <<>>, maven_home |-> <<>>, maven_bin |-> <<>>]

NoWorker == [st |-> "idle", i |-> 0, res |-> <<>>]

NoProv ==
    [existing_jdk |-> <<>>, existing_maven |-> <<>>, jdk_download |-> <<>>,
     jdk_home |-> <<>>, remaining |-> <<>>, fi |-> 0]

NoRun ==
    [valid |-> FALSE, project |-> "", ok |-> FALSE, jdk_home |-> <<>>,
     maven_home |-> <<>>, maven_bin |-> <<>>, tree |-> [dirs |-> {}, files |-> <<>>],
     toolchains |-> RegAbsent, settingsXml |-> "absent", vscode |-> SetAbsent,
     fetched |-> FALSE, extracted |-> FALSE]

NoHist == [op |-> "none"]

EmptyFs == [dirs |-> {HOME}, files |-> <<>>]

\* A regular file where a directory is expected.
Stray == [kind |-> "text", top |-> ""]

\* An installation root that already holds a JDK 22 and its Maven.
PopulatedFs ==
    [dirs |-> { HOME, JAENVTIX_HOME, jdk_base("22"),
                jdk_base("22") \o <<"Oracle22">>, jdk_base("22") \o <<"Oracle22", "bin">>,
                jdk_base("22") \o <<"mvn-custom">>,
                jdk_base("22") \o <<"mvn-custom", "bin">> },
     files |-> (jdk_base("22") \o <<"mvn-custom", "bin", "mvn">>) :> Executable]

\* The machines the pipeline starts on: every OS/architecture with every set
\* of configuration files on an empty HOME; an unknown OS with a populated
\* installation root; ~/.m2 a regular file; ~/.jaenvtix a regular file.
MachineChoices ==
    { <<oa, EmptyFs, c>> : oa \in OsArchChoices, c \in ConfigChoices }
    \cup { << <<"freebsd", "x86_64">>, PopulatedFs, <<RegAbsent, "absent", SetAbsent>> >>,
           << <<"linux", "x86_64">>,
              [dirs |-> {HOME}, files |-> M2_DIR :> Stray],
              <<RegAbsent, "absent", SetAbsent>> >>,
           << <<"linux", "x86_64">>,
              [dirs |-> {HOME}, files |-> JAENVTIX_HOME :> Stray],
              <<RegAbsent, "absent", SetAbsent>> >> }

\* ---------------------------------------------------------------- the chain
\* process_project's list of steps.
Steps == <<"version", "env", "provision", "config">>

StepAfter(step) ==
    CASE step = "version" -> "env" [] step = "env" -> "provision"
      [] step = "provision" -> "config" [] OTHER -> "end"

\* A chain that ignores what execute() returns.
RunOnRegardless(step, ok) == StepAfter(step)

\* A chain that prepares the environment whatever the version step returned.
ContinueAfterVersion(step, ok) ==
    IF step = "version" THEN "env" ELSE IF ~ok THEN "end" ELSE StepAfter(step)

\* ValidationChain.run: where the loop goes after a step returned ok.
ChainNext(step, ok) == IF ~ok THEN "end" ELSE StepAfter(step)

StepDone(step, ok, why) ==
    /\ ran' = Append(ran, [step |-> step, ok |-> ok, why |-> why])
    /\ pc' = ChainNext(step, ok)

ChainOk == Len(ran) = Len(Steps) /\ \A i \in 1..Len(ran) : ran[i].ok

Log(kind, name, ok, by) == [kind |-> kind, name |-> name, ok |-> ok, by |-> by]

NoEvents == [jdk |-> <<>>, mvn |-> <<>>]

\* The log of a project that starts on the tree F.
StartEvents(F) == [jdk |-> <<>>, mvn |-> <<>>, tree |-> F]

LogJdk(es) == [events EXCEPT !.jdk = @ \o es]
LogMvn(es) == [events EXCEPT !.mvn = @ \o es]

\* ---------------------------------------------------------------- main
\* main() up to the for loop.
MainStart ==
    /\ mainPc = "idle"
    /\ \E ps \in DiscoveredChoices :
         /\ projRuns + Len(ps) <= MaxProjectRuns
         /\ discovered' = ps
         /\ mainPc' = IF ps = <<>> THEN "idle" ELSE "loop"
    /\ projIdx' = 1 /\ reported' = <<>> /\ processed' = <<>>
    /\ UNCHANGED << projRuns, osarch, pom, fs, toolchains, settingsXml, vscode, pc, ctx, ran,
                    jdkW, mvnW, prov, events, last, prev, hist, calls >>

\* process_project up to chain.run.
ProcessProject ==
    /\ mainPc = "loop" /\ pc = "none" /\ projIdx <= Len(discovered)
    /\ ctx' = [NoCtx EXCEPT !.project_dir = discovered[projIdx]]
    /\ pc' = Steps[1]
    /\ projRuns' = projRuns + 1
    /\ ran' = <<>> /\ events' = StartEvents(fs)
    /\ UNCHANGED << osarch, pom, fs, toolchains, settingsXml, vscode, mainPc,
                    discovered, projIdx, jdkW, mvnW, prov, last, prev, reported,
                    hist, calls, processed >>

JavaVersionStep ==
    /\ pc = "version"
    /\ LET java_version == parse_java_version_from_pom(pom[ctx.project_dir])
       IN  IF java_version = ""
           THEN StepDone("version", FALSE, "no-version") /\ ctx' = ctx
           ELSE StepDone("version", TRUE, "")
                /\ ctx' = [ctx EXCEPT !.java_version = java_version]
    /\ UNCHANGED << osarch, pom, fs, toolchains, settingsXml, vscode, mainPc, projRuns,
                    discovered, projIdx, jdkW, mvnW, prov, events, last, prev,
                    reported, hist, calls, processed >>

\* ensure_dirs()
ensure_dirs(F) ==
    LET made == { JAENVTIX_HOME, TEMP_DIR } \cup { jdk_base(v) : v \in {"8", "11", "17", "21", "25"} }
    IN  [F EXCEPT !.dirs = @ \cup made]

\* The mkdir calls of ensure_dirs(), in order.
EnsureDirsOrder ==
    << JAENVTIX_HOME, TEMP_DIR, jdk_base("8"), jdk_base("11"), jdk_base("17"),
       jdk_base("21"), jdk_base("25") >>

\* ensure_dirs() re-raises what a mkdir raises.
EnsureDirsRaises(F) == \E k \in 1..Len(EnsureDirsOrder) : Blocked(F, EnsureDirsOrder[k])

\* What ensure_dirs() has created when it raises: the directories before the
\* first one it cannot create.
EnsureDirsPartial(F) ==
    LET k == Min({ j \in 1..Len(EnsureDirsOrder) : Blocked(F, EnsureDirsOrder[j]) })
    IN  [F EXCEPT !.dirs = @ \cup { EnsureDirsOrder[j] : j \in 1..(k - 1) }]

EnvironmentStep ==
    /\ pc = "env"
    /\ ctx' = [ctx EXCEPT !.os_name = osarch[1], !.arch = osarch[2]]
    /\ IF osarch[2] \notin {"x86_64", "aarch64"}
       THEN StepDone("env", FALSE, "arch") /\ fs' = fs
       ELSE IF EnsureDirsRaises(fs)
       THEN /\ fs' = EnsureDirsPartial(fs)
            /\ pc' = "raised" /\ ran' = ran
       ELSE StepDone("env", TRUE, "") /\ fs' = ensure_dirs(fs)
    /\ UNCHANGED << osarch, pom, toolchains, settingsXml, vscode, mainPc, projRuns,
                    discovered, projIdx, jdkW, mvnW, prov, events, last, prev,
                    reported, hist, calls, processed >>

\* ---------------------------------------------------------------- provisioning
\* A destination next to the JDK instead of the scratch directory.
ArchiveInJdkBase(v, dist) == Child(jdk_base(v), "jdk-" \o v \o "-" \o dist.name \o "." \o dist.ext)

jdk_archive(v, dist) == Child(TEMP_DIR, "jdk-" \o v \o "-" \o dist.name \o "." \o dist.ext)

maven_archive(ext) == Child(TEMP_DIR, "apache-maven-" \o DEFAULT_MAVEN_VERSION \o "-bin." \o ext)

Candidates == select_jdk_dist(ctx.java_version, ctx.os_name, ctx.arch)

\* Candidates tried last to first.
LastFirst(cands) == [i \in 1..Len(cands) |-> cands[Len(cands) + 1 - i]]

\* download_jdk_package: the order of `for dist in candidates`.
DownloadOrder(cands) == cands

\* No fallback list: an install failure is final.
NoFallback(cands, dist) == <<>>

\* install_jdk_with_fallback: remaining = [d for d in candidates if d not in skip].
FallbackRemaining(cands, dist) ==
    LET keep(d) == d # dist
    IN  SelectSeq(cands, keep)

\* RuntimeProvisionStep.execute up to the end of the `with` block's body: the
\* two lookups and the submits.
ProvisionBegin ==
    /\ pc = "provision"
    /\ IF ctx.java_version = "" \/ ctx.os_name = "" \/ ctx.arch = ""
       THEN /\ StepDone("provision", FALSE, "context")
            /\ UNCHANGED << jdkW, mvnW, prov >>
       ELSE \E ej \in (IF locate_existing_jdk(fs, ctx.java_version) = {} THEN { <<>> }
                       ELSE locate_existing_jdk(fs, ctx.java_version)) :
              LET em == locate_existing_maven(fs, ctx.java_version, ctx.os_name)
              IN  /\ prov' = [NoProv EXCEPT !.existing_jdk = ej, !.existing_maven = em]
                  /\ jdkW' = IF ej = <<>> THEN [st |-> "run", i |-> 1, res |-> <<>>]
                             ELSE NoWorker
                  /\ mvnW' = IF em = <<>> THEN [st |-> "run", i |-> 1, res |-> <<>>]
                             ELSE NoWorker
                  /\ pc' = "join" /\ ran' = ran
    /\ UNCHANGED << osarch, pom, fs, toolchains, settingsXml, vscode, mainPc, projRuns,
                    discovered, projIdx, ctx, events, last, prev, reported, hist, calls, processed >>

\* download_jdk_package on its worker: one turn of its loop (the whole function
\* when there is no candidate).
JdkWorkerFetch ==
    /\ jdkW.st = "run"
    /\ LET cands == DownloadOrder(Candidates)
       IN  IF cands = <<>>
           THEN /\ jdkW' = [st |-> "done", i |-> 0, res |-> <<>>]
                /\ UNCHANGED << fs, events >>
           ELSE LET dist == cands[jdkW.i]
                    archive == jdk_archive(ctx.java_version, dist)
                    F1 == MkdirP(fs, TEMP_DIR)
                IN  \E outs \in JdkOutcomes, body \in JdkBodies(dist) :
                      LET r == download_with_retries(outs, body, ReadFile(F1, archive),
                                                     DefaultAttempts)
                      IN  /\ fs' = WriteFile(F1, archive, r.file)
                          /\ events' = LogJdk(<<Log("fetch", dist.name, r.ok, "jdk-worker")>>)
                          /\ jdkW' = IF r.ok
                                     THEN [st |-> "done", i |-> jdkW.i, res |-> <<archive, dist>>]
                                     ELSE IF jdkW.i = Len(cands)
                                     THEN [st |-> "done", i |-> jdkW.i, res |-> <<>>]
                                     ELSE [jdkW EXCEPT !.i = @ + 1]
    /\ UNCHANGED << osarch, pom, toolchains, settingsXml, vscode, mainPc, projRuns,
                    discovered, projIdx, pc, ctx, ran, mvnW, prov, last, prev,
                    reported, hist, calls, processed >>

\* download_maven_package on its worker.
MvnWorkerFetch ==
    /\ mvnW.st = "run"
    /\ LET distro == resolve_maven_distro(ctx.os_name)
       IN  IF distro = <<>>
           THEN /\ mvnW' = [st |-> "done", i |-> 0, res |-> <<>>]
                /\ UNCHANGED << fs, events >>
           ELSE LET archive == maven_archive(distro[2])
                    F1 == MkdirP(fs, TEMP_DIR)
                    old == ReadFile(F1, archive)
                IN  IF old.kind \notin {"absent", "empty"}
                    THEN /\ mvnW' = [st |-> "done", i |-> 0, res |-> <<archive, distro[2]>>]
                         /\ fs' = F1
                         /\ events' = LogMvn(<<Log("reuse", "maven", TRUE, "mvn-worker")>>)
                    ELSE \E outs \in MvnOutcomes, body \in MvnBodies :
                           LET r == download_with_retries(outs, body, old, DefaultAttempts)
                           IN  /\ fs' = WriteFile(F1, archive, r.file)
                               /\ events' = LogMvn(<<Log("fetch", "maven", r.ok, "mvn-worker")>>)
                               /\ mvnW' = [st |-> "done", i |-> 1,
                                           res |-> IF r.ok THEN <<archive, distro[2]>> ELSE <<>>]
    /\ UNCHANGED << osarch, pom, toolchains, settingsXml, vscode, mainPc, projRuns,
                    discovered, projIdx, pc, ctx, ran, jdkW, prov, last, prev,
                    reported, hist, calls, processed >>

\* A pool that is not shut down: only future_jdk.result() is waited for.
JdkFutureDone(jw, mw) == jw.st # "run"

\* The end of `with ThreadPoolExecutor(max_workers=2) as executor`: the exit
\* of the block waits until no submitted task is running.
PoolJoined(jw, mw) == jw.st # "run" /\ mw.st # "run"

\* The end of the `with` block (both workers have finished) and
\* future_jdk.result().
ProvisionJoin ==
    /\ pc = "join" /\ PoolJoined(jdkW, mvnW)
    /\ IF jdkW.st = "done" /\ jdkW.res = <<>>
       THEN StepDone("provision", FALSE, "jdk-download") /\ prov' = prov
       ELSE /\ prov' = [prov EXCEPT !.jdk_download = jdkW.res, !.jdk_home = prov.existing_jdk]
            /\ pc' = IF prov.existing_jdk = <<>> THEN "install" ELSE "maven"
            /\ ran' = ran
    /\ UNCHANGED << osarch, pom, fs, toolchains, settingsXml, vscode, mainPc, projRuns,
                    discovered, projIdx, ctx, jdkW, mvnW, events, last, prev,
                    reported, hist, calls, processed >>

\* install_jdk_from_archive on the fetched archive and, when it fails, the
\* start of install_jdk_with_fallback.
JdkInstall ==
    /\ pc = "install"
    /\ LET archive == prov.jdk_download[1]
           dist == prov.jdk_download[2]
       IN  \E o \in install_jdk_from_archive(fs, ctx.java_version, archive, dist.ext) :
             /\ fs' = o.fs
             /\ events' = LogJdk(<<Log("install", dist.name, o.home # <<>>, "main")>>)
             /\ IF o.home # <<>>
                THEN /\ prov' = [prov EXCEPT !.jdk_home = o.home]
                     /\ pc' = "maven" /\ ran' = ran
                ELSE LET remaining == FallbackRemaining(Candidates, dist)
                     IN  IF remaining = <<>>
                         THEN StepDone("provision", FALSE, "jdk-install") /\ prov' = prov
                         ELSE /\ prov' = [prov EXCEPT !.remaining = remaining, !.fi = 1]
                              /\ pc' = "fallback" /\ ran' = ran
    /\ UNCHANGED << osarch, pom, toolchains, settingsXml, vscode, mainPc, projRuns,
                    discovered, projIdx, ctx, jdkW, mvnW, last, prev, reported,
                    hist, calls, processed >>

\* install_jdk_with_fallback: one turn of its loop.
JdkFallback ==
    /\ pc = "fallback"
    /\ LET dist == prov.remaining[prov.fi]
           archive == jdk_archive(ctx.java_version, dist)
           F1 == MkdirP(fs, TEMP_DIR)
           exhausted == prov.fi = Len(prov.remaining)
       IN  \E outs \in JdkOutcomes, body \in JdkBodies(dist) :
             LET r == download_with_retries(outs, body, ReadFile(F1, archive), DefaultAttempts)
                 F2 == WriteFile(F1, archive, r.file)
                 fetched == Log("fetch", dist.name, r.ok, "main")
             IN  IF ~r.ok
                 THEN /\ fs' = F2
                      /\ events' = LogJdk(<<fetched>>)
                      /\ IF exhausted
                         THEN StepDone("provision", FALSE, "jdk-install") /\ prov' = prov
                         ELSE prov' = [prov EXCEPT !.fi = @ + 1] /\ pc' = pc /\ ran' = ran
                 ELSE \E o \in install_jdk_from_archive(F2, ctx.java_version, archive, dist.ext) :
                        /\ fs' = o.fs
                        /\ events' = LogJdk(<< fetched,
                                            Log("install", dist.name, o.home # <<>>, "main") >>)
                        /\ IF o.home # <<>>
                           THEN /\ prov' = [prov EXCEPT !.jdk_home = o.home]
                                /\ pc' = "maven" /\ ran' = ran
                           ELSE IF exhausted
                           THEN StepDone("provision", FALSE, "jdk-install") /\ prov' = prov
                           ELSE prov' = [prov EXCEPT !.fi = @ + 1] /\ pc' = pc /\ ran' = ran
    /\ UNCHANGED << osarch, pom, toolchains, settingsXml, vscode, mainPc, projRuns,
                    discovered, projIdx, ctx, jdkW, mvnW, last, prev, reported,
                    hist, calls, processed >>

\* A step that records the JDK home as soon as the JDK is there.
CtxKeepsJdkHome(c, jdk_home) == [c EXCEPT !.jdk_home = jdk_home]

\* The context when the Maven half returns False: the three assignments at
\* the end of execute() have not been reached, jdk_home is still a local.
CtxOnMavenFailure(c, jdk_home) == c

\* The rest of RuntimeProvisionStep.execute: the Maven half and the context.
MavenInstall ==
    /\ pc = "maven"
    /\ IF prov.existing_maven # <<>>
       THEN /\ ctx' = [ctx EXCEPT !.jdk_home = prov.jdk_home,
                                  !.maven_home = prov.existing_maven[1],
                                  !.maven_bin = prov.existing_maven[2]]
            /\ StepDone("provision", TRUE, "")
            /\ UNCHANGED << fs, events >>
       ELSE IF mvnW.res = <<>>
       THEN /\ StepDone("provision", FALSE, "maven-download")
            /\ ctx' = CtxOnMavenFailure(ctx, prov.jdk_home)
            /\ UNCHANGED << fs, events >>
       ELSE \E o \in install_maven_from_archive(fs, ctx.java_version, ctx.os_name,
                                                mvnW.res[2], mvnW.res[1]) :
              /\ fs' = o.fs
              /\ events' = LogMvn(<<Log("mvn-install", "maven", o.res # <<>>, "main")>>)
              /\ IF o.res = <<>>
                 THEN /\ StepDone("provision", FALSE, "maven-install")
                      /\ ctx' = CtxOnMavenFailure(ctx, prov.jdk_home)
                 ELSE /\ ctx' = [ctx EXCEPT !.jdk_home = prov.jdk_home,
                                            !.maven_home = o.res[1],
                                            !.maven_bin = o.res[2]]
                      /\ StepDone("provision", TRUE, "")
    /\ UNCHANGED << osarch, pom, toolchains, settingsXml, vscode, mainPc, projRuns,
                    discovered, projIdx, jdkW, mvnW, prov, last, prev, reported,
                    hist, calls, processed >>

\* ---------------------------------------------------------------- configuration
\* ensure_m2_dirs(): M2_DIR.mkdir(parents=True, exist_ok=True); it raises when
\* a regular file is in the way.
ensure_m2_dirs(F) ==
    IF Blocked(F, M2_DIR) THEN [fs |-> F, raised |-> TRUE]
    ELSE [fs |-> MkdirP(F, M2_DIR), raised |-> FALSE]

\* A skeleton written on every run.
AlwaysWriteSkeleton(content) == "skeleton"

\* ensure_settings_xml(): written only when missing.
ensure_settings_xml(content) == IF content = "absent" THEN "skeleton" ELSE content

\* A configuration step that fails on any of the three errors.
ConfigFailsOnAnyError(mergeRaised, settingsRaised, vscodeRaised) ==
    ~(mergeRaised \/ settingsRaised \/ vscodeRaised)

\* ConfigurationStep.execute: what it returns after its three try blocks; only
\* the third one returns False from its except clause.
ConfigResult(mergeRaised, settingsRaised, vscodeRaised) == ~vscodeRaised

ConfigurationStep ==
    /\ pc = "config"
    /\ IF ctx.java_version = "" \/ ctx.jdk_home = <<>> \/ ctx.maven_bin = <<>>
       THEN /\ StepDone("config", FALSE, "context")
            /\ UNCHANGED << fs, toolchains, settingsXml, vscode, hist >>
       ELSE LET d == ensure_m2_dirs(fs)
                m == IF d.raised THEN [file |-> toolchains, raised |-> TRUE]
                     ELSE merge_toolchains(toolchains, ctx.java_version, ctx.jdk_home)
                u == update_vscode_settings(vscode[ctx.project_dir], ctx.jdk_home, ctx.maven_bin)
            IN  /\ fs' = d.fs
                /\ toolchains' = m.file
                /\ settingsXml' = IF d.raised THEN settingsXml
                                  ELSE ensure_settings_xml(settingsXml)
                /\ vscode' = [vscode EXCEPT ![ctx.project_dir] = u.file]
                /\ hist' = [op |-> "config", regBefore |-> toolchains,
                            mergeRaised |-> m.raised, settingsRaised |-> d.raised,
                            vscodeRaised |-> u.raised]
                /\ StepDone("config", ConfigResult(m.raised, d.raised, u.raised),
                            IF u.raised THEN "vscode" ELSE "")
    /\ UNCHANGED << osarch, pom, mainPc, projRuns, discovered, projIdx, ctx, jdkW,
                    mvnW, prov, events, last, prev, reported, calls, processed >>

CountEvents(kinds) ==
    Cardinality({ i \in 1..Len(events.jdk) : events.jdk[i].kind \in kinds })
    + Cardinality({ i \in 1..Len(events.mvn) : events.mvn[i].kind \in kinds })

\* A main() without try/except around process_project: an exception ends the
\* loop.
StopOnException(idx, how, n) == IF how = "raised" THEN n + 1 ELSE idx + 1

\* main(): the for loop moves to the next project however the call ended (the
\* except clause only logs).
NextProject(idx, how, n) == idx + 1

\* How a process_project call that stands at position p ended.
HowEnded(p) == IF p = "raised" THEN "raised" ELSE IF ChainOk THEN "ok" ELSE "failed"

\* process_project after chain.run, and the loop of main() moving on.
FinishProject ==
    /\ pc \in {"end", "raised"}
    /\ reported' = IF pc = "end" /\ ChainOk THEN Append(reported, ctx.project_dir) ELSE reported
    /\ processed' = Append(processed, [project |-> ctx.project_dir, how |-> HowEnded(pc)])
    /\ prev' = last
    /\ last' = [valid |-> TRUE, project |-> ctx.project_dir, ok |-> ChainOk,
                jdk_home |-> ctx.jdk_home, maven_home |-> ctx.maven_home,
                maven_bin |-> ctx.maven_bin, tree |-> Remove(fs, TEMP_DIR),
                toolchains |-> toolchains, settingsXml |-> settingsXml,
                vscode |-> vscode[ctx.project_dir],
                fetched |-> CountEvents({"fetch"}) > 0,
                extracted |-> CountEvents({"install", "mvn-install"}) > 0]
    /\ projIdx' = NextProject(projIdx, HowEnded(pc), Len(discovered))
    /\ pc' = "none" /\ ctx' = NoCtx /\ ran' = <<>> /\ events' = NoEvents
    /\ jdkW' = NoWorker /\ mvnW' = NoWorker /\ prov' = NoProv /\ hist' = NoHist
    /\ UNCHANGED << osarch, pom, fs, toolchains, settingsXml, vscode, mainPc, projRuns,
                    discovered, calls >>

\* A purge that unlinks the files and leaves the directories.
CleanupFilesOnly(F) ==
    IF Exists(F, TEMP_DIR)
    THEN RemoveAll(F, { ch \in Iterdir(F, TEMP_DIR) : ~IsDir(F, ch) })
    ELSE F

\* cleanup_temp()
cleanup_temp(F) == IF Exists(F, TEMP_DIR) THEN RemoveAll(F, Iterdir(F, TEMP_DIR)) ELSE F

\* main() after the for loop.
CleanupTemp ==
    /\ mainPc = "loop" /\ pc = "none" /\ projIdx > Len(discovered)
    /\ fs' = cleanup_temp(fs)
    /\ mainPc' = "idle"
    /\ UNCHANGED << projRuns, osarch, pom, toolchains, settingsXml, vscode, discovered, projIdx,
                    pc, ctx, ran, jdkW, mvnW, prov, events, last, prev, reported,
                    hist, calls, processed >>

\* ---------------------------------------------------------------- the pipeline
Init ==
    /\ pom \in PomChoices
    /\ \E m \in MachineChoices :
         /\ osarch = m[1]
         /\ fs = m[2]
         /\ toolchains = m[3][1]
         /\ settingsXml = m[3][2]
         /\ vscode = [p \in Projects |-> IF p = "root" THEN m[3][3] ELSE SetAbsent]
    /\ mainPc = "idle" /\ projRuns = 0 /\ discovered = <<>> /\ projIdx = 1
    /\ pc = "none" /\ ctx = NoCtx /\ ran = <<>>
    /\ jdkW = NoWorker /\ mvnW = NoWorker /\ prov = NoProv
    /\ events = NoEvents /\ last = NoRun /\ prev = NoRun /\ reported = <<>>
    /\ hist = NoHist /\ calls = 0 /\ processed = <<>>

Next ==
    \/ MainStart
    \/ ProcessProject
    \/ JavaVersionStep
    \/ EnvironmentStep
    \/ ProvisionBegin
    \/ JdkWorkerFetch
    \/ MvnWorkerFetch
    \/ ProvisionJoin
    \/ JdkInstall
    \/ JdkFallback
    \/ MavenInstall
    \/ ConfigurationStep
    \/ FinishProject
    \/ CleanupTemp

Spec == Init /\ [][Next]_vars

\* ---------------------------------------------------------------- the fetcher alone
\* Everything of the pipeline at rest.
PipelineIdle ==
    /\ osarch = <<"linux", "x86_64">>
    /\ pom = [p \in Projects |-> PomWith("", "")]
    /\ fs = EmptyFs /\ settingsXml = "absent"
    /\ mainPc = "idle" /\ projRuns = 0 /\ discovered = <<>> /\ projIdx = 1
    /\ pc = "none" /\ ctx = NoCtx /\ ran = <<>>
    /\ jdkW = NoWorker /\ mvnW = NoWorker /\ prov = NoProv
    /\ events = NoEvents /\ last = NoRun /\ prev = NoRun /\ reported = <<>>
    /\ processed = <<>>

pipelineVars ==
    << osarch, pom, fs, settingsXml, mainPc, projRuns, discovered, projIdx, pc, ctx,
       ran, jdkW, mvnW, prov, events, last, prev, reported, processed >>

\* What the destination holds before the call.
OldFiles == { FileAbsent, [kind |-> "mvn", top |-> "old"] }

InitDownload ==
    /\ PipelineIdle
    /\ toolchains = RegAbsent
    /\ vscode = [p \in Projects |-> SetAbsent]
    /\ calls = 0
    /\ \E n \in 0..MaxAttempts, outs \in [1..MaxAttempts -> Outcomes], file \in OldFiles :
         hist = [op |-> "input", attempts |-> n, outs |-> outs, before |-> file,
                 res |-> [ok |-> FALSE, made |-> 0, file |-> file, sleeps |-> <<>>]]

\* One call download_with_retries(url, dest, attempts, backoff).
Download ==
    /\ calls = 0
    /\ hist' = [hist EXCEPT !.op = "download",
                            !.res = download_with_retries(hist.outs,
                                        [kind |-> "mvn", top |-> "new"],
                                        hist.before, hist.attempts)]
    /\ calls' = 1
    /\ UNCHANGED << pipelineVars, toolchains, vscode >>

NextDownload == Download

SpecDownload == InitDownload /\ [][NextDownload]_vars

\* ---------------------------------------------------------------- the registry merge alone
MergeVersions == {"17", "21"}
HomeA == jdk_base("17") \o <<"jdk-17.0.9">>
HomeB == jdk_base("17") \o <<"jdk-17.0.10">>
MergeHomes == { HomeA, HomeB }

\* The children a registry found on disk may have.
EntryShapes ==
    { [tag |-> "other", hasProv |-> FALSE, version |-> "",
       hasConf |-> FALSE, hasHome |-> FALSE, home |-> NoHome] }
    \cup { [tag |-> "toolchain", hasProv |-> pv # "none", version |-> IF pv = "none" THEN "" ELSE pv,
            hasConf |-> cf # "none", hasHome |-> cf = "home",
            home |-> IF cf = "home" THEN HomeA ELSE NoHome]
           : pv \in {"none"} \cup MergeVersions, cf \in {"none", "empty", "home"} }

RECURSIVE SeqsUpTo(_, _)
SeqsUpTo(S, n) ==
    IF n = 0 THEN { <<>> }
    ELSE SeqsUpTo(S, n - 1)
         \cup { Append(q, x) : q \in { r \in SeqsUpTo(S, n - 1) : Len(r) = n - 1 }, x \in S }

RegistryFiles ==
    { RegAbsent, RegMalformed } \cup { RegDoc(es) : es \in SeqsUpTo(EntryShapes, MaxEntries) }

InitMerge ==
    /\ PipelineIdle
    /\ toolchains \in RegistryFiles
    /\ vscode = [p \in Projects |-> SetAbsent]
    /\ calls = 0
    /\ hist = [op |-> "none", start |-> toolchains, before |-> toolchains,
               version |-> "", home |-> NoHome, raised |-> FALSE]

\* One call merge_toolchains(java_version, java_home).
Merge ==
    /\ calls < MaxMerges
    /\ \E v \in MergeVersions, home \in MergeHomes :
         LET m == merge_toolchains(toolchains, v, home)
         IN  /\ toolchains' = m.file
             /\ hist' = [hist EXCEPT !.op = "merge", !.before = toolchains,
                                     !.version = v, !.home = home, !.raised = m.raised]
    /\ calls' = calls + 1
    /\ UNCHANGED << pipelineVars, vscode >>

NextMerge == Merge

SpecMerge == InitMerge /\ [][NextMerge]_vars

\* ---------------------------------------------------------------- the settings merge alone
SettingKeys ==
    { "java.home", "java.jdt.ls.lombokSupport.enabled", "maven.executable.path",
      "editor.tabSize" }
SettingValues == { <<"false">>, <<"4">> }

SettingsFiles ==
    { SetAbsent, SetMalformed, SetNonObject }
    \cup UNION { { SetObject(d) : d \in [ks -> SettingValues] } : ks \in SUBSET SettingKeys }

MavenBinA == jdk_base("17") \o <<"mvn-custom", "bin", "mvn">>

InitSettings ==
    /\ PipelineIdle
    /\ toolchains = RegAbsent
    /\ \E f \in SettingsFiles : vscode = [p \in Projects |-> IF p = "root" THEN f ELSE SetAbsent]
    /\ calls = 0
    /\ hist = [op |-> "none", before |-> vscode["root"], home |-> NoHome, raised |-> FALSE]

\* One call update_vscode_settings(project_dir, java_home, maven_bin).
UpdateSettings ==
    /\ calls < MaxUpdates
    /\ \E home \in MergeHomes :
         LET u == update_vscode_settings(vscode["root"], home, MavenBinA)
         IN  /\ vscode' = [vscode EXCEPT !["root"] = u.file]
             /\ hist' = [op |-> "update", before |-> vscode["root"], home |-> home,
                         raised |-> u.raised]
    /\ calls' = calls + 1
    /\ UNCHANGED << pipelineVars, toolchains >>

NextSettings == UpdateSettings

SpecSettings == InitSettings /\ [][NextSettings]_vars

\* ---------------------------------------------------------------- the version resolver alone
\* What a version-declaring element may hold: nothing (<<>>), blanks, a plain
\* major, a legacy 1.N, a patch version, a property reference.
TextChoices ==
    { <<>>, <<" ">>, <<"1", "7">>, <<"1", ".", "8">>, <<" ", "2", "1", ".", "0">>,
      <<"$", "{", "v", "}">> }

PomFiles ==
    { [parsable |-> ok, javaVersion |-> a, release |-> b, compilerVersion |-> c, toolchain |-> d]
      : ok \in BOOLEAN, a \in TextChoices, b \in TextChoices, c \in TextChoices,
        d \in TextChoices }

\* Everything of the pipeline at rest but the poms.
PipelineIdleButPom ==
    /\ osarch = <<"linux", "x86_64">>
    /\ fs = EmptyFs /\ settingsXml = "absent"
    /\ mainPc = "idle" /\ projRuns = 0 /\ discovered = <<>> /\ projIdx = 1
    /\ pc = "none" /\ ctx = NoCtx /\ ran = <<>>
    /\ jdkW = NoWorker /\ mvnW = NoWorker /\ prov = NoProv
    /\ events = NoEvents /\ last = NoRun /\ prev = NoRun /\ reported = <<>>
    /\ processed = <<>>

InitPom ==
    /\ PipelineIdleButPom
    /\ \E pm \in PomFiles : pom = [p \in Projects |-> IF p = "root" THEN pm ELSE PomWith("", "")]
    /\ toolchains = RegAbsent
    /\ vscode = [p \in Projects |-> SetAbsent]
    /\ calls = 0
    /\ hist = [op |-> "none", res |-> ""]

\* One call parse_java_version_from_pom(pom_path) on the root project's pom.
ParsePom ==
    /\ calls = 0
    /\ hist' = [op |-> "parse", res |-> parse_java_version_from_pom(pom["root"])]
    /\ calls' = 1
    /\ UNCHANGED << pipelineVars, toolchains, vscode >>

NextPom == ParsePom

SpecPom == InitPom /\ [][NextPom]_vars

\* ---------------------------------------------------------------- the normalizer alone
VersionAlphabet == {"1", "0", ".", "x", " "}

VersionTexts == SeqsUpTo(VersionAlphabet, MaxTextLen)

InitVersion ==
    /\ PipelineIdle
    /\ toolchains = RegAbsent
    /\ vscode = [p \in Projects |-> SetAbsent]
    /\ calls = 0
    /\ \E raw \in VersionTexts : hist = [op |-> "input", raw |-> raw, res |-> ""]

\* One call normalize_java_version(v).
Normalize ==
    /\ calls = 0
    /\ hist' = [hist EXCEPT !.op = "normalize", !.res = normalize_java_version(hist.raw)]
    /\ calls' = 1
    /\ UNCHANGED << pipelineVars, toolchains, vscode >>

NextVersion == Normalize

SpecVersion == InitVersion /\ [][NextVersion]_vars

\* ---------------------------------------------------------------- the catalog alone
\* The lookups tried: the versions of the static table, two versions outside
\* it, the OS names and architectures detect_os_arch can return and one more
\* of each.
CatalogKeys ==
    { <<v, os, arch>> : v \in {"8", "11", "17", "21", "25", "9", "22"},
                        os \in {"windows", "linux", "macos", "freebsd"},
                        arch \in {"x86_64", "aarch64", "riscv64"} }

InitCatalog ==
    /\ PipelineIdle
    /\ toolchains = RegAbsent
    /\ vscode = [p \in Projects |-> SetAbsent]
    /\ calls = 0
    /\ \E k \in CatalogKeys : hist = [op |-> "input", key |-> k, res |-> <<>>]

\* One call select_jdk_dist(java_version, os_name, arch).
Select ==
    /\ calls = 0
    /\ hist' = [hist EXCEPT !.op = "select",
                            !.res = select_jdk_dist(hist.key[1], hist.key[2], hist.key[3])]
    /\ calls' = 1
    /\ UNCHANGED << pipelineVars, toolchains, vscode >>

NextCatalog == Select

SpecCatalog == InitCatalog /\ [][NextCatalog]_vars

\* ================================================================ properties
\* ---------------------------------------------------------------- the pipeline
SameProjectAgain ==
    last.valid /\ prev.valid /\ prev.ok /\ last.project = prev.project

\* C1: when process_project completed successfully for a project and nothing
\* changed on disk since, a second run for the same project downloads nothing,
\* extracts nothing, and ends with the same JDK home, the same build-tool home,
\* the same registry (so no entry added) and the same editor settings as the
\* first run left.
C1_SecondRunIsIdempotent ==
    SameProjectAgain =>
        /\ last.ok
        /\ ~last.fetched /\ ~last.extracted
        /\ last.jdk_home = prev.jdk_home
        /\ last.maven_home = prev.maven_home
        /\ last.toolchains = prev.toolchains
        /\ last.vscode = prev.vscode
        /\ last.tree = prev.tree

AllOk(rs) == \A i \in 1..Len(rs) : rs[i].ok

\* C2: the steps of a project run are resolve version, check environment,
\* provision runtimes, write configuration, in that order; a step is under way
\* only when every earlier step returned success; once a step has failed the
\* chain is at its end, and the project is reported configured only when all
\* four steps succeeded.
C2_StepsInOrderStopAtFirstFailure ==
    /\ Len(ran) <= Len(Steps)
    /\ \A i \in 1..Len(ran) : ran[i].step = Steps[i]
    /\ AllOk(SubSeq(ran, 1, Len(ran) - 1))
    /\ (pc \notin {"none", "end"}) => AllOk(ran)
    /\ (pc \in {"version", "env", "provision", "config"}) => pc = Steps[Len(ran) + 1]
    /\ (pc \in {"join", "install", "fallback", "maven"}) => Len(ran) = 2
    /\ (~AllOk(ran)) => pc = "end"
    /\ (mainPc = "loop" /\ pc = "none" /\ projIdx > 1) =>
          ((\E i \in 1..Len(reported) : reported[i] = last.project) <=> last.ok)
    /\ last.valid => (last.ok => (last.jdk_home # <<>> /\ last.maven_bin # <<>>))

C2_Witness ==
    /\ pc = "end" /\ Len(ran) = 3 /\ ~ran[3].ok
    /\ projIdx = 2 /\ last.valid /\ last.ok

CandidateIndex(name) ==
    Min({ j \in 1..Len(Candidates) : Candidates[j].name = name } \cup { Len(Candidates) + 1 })

FailedBefore(name, n) ==
    \E m \in 1..(n - 1) : events.jdk[m].name = name /\ ~events.jdk[m].ok

InstalledOk(n) == events.jdk[n].kind = "install" /\ events.jdk[n].ok

\* C3: when the install of a candidate succeeds, every candidate that precedes
\* it in the catalog list has been attempted and has failed before, no other
\* install has succeeded, and the resulting JDK home lies in what that
\* candidate's archive unpacked under jdk-<version>; so with a list [A, B, C]
\* where A and B fail and C succeeds the home comes from C.
C3_FallbackInCatalogOrder ==
    \A n \in 1..Len(events.jdk) :
        InstalledOk(n) =>
            /\ n = Len(events.jdk)
            /\ \A j \in 1..(CandidateIndex(events.jdk[n].name) - 1) :
                   FailedBefore(Candidates[j].name, n)
            /\ \A m \in 1..(n - 1) : ~InstalledOk(m)
            /\ IsPrefix(Child(jdk_base(ctx.java_version), events.jdk[n].name), prov.jdk_home)

C3_Witness ==
    /\ Len(Candidates) = 3 /\ pc = "maven"
    /\ \E n \in 1..Len(events.jdk) :
         /\ InstalledOk(n) /\ events.jdk[n].name = Candidates[3].name
         /\ \E m \in 1..(n - 1) :
              /\ events.jdk[m].name = Candidates[1].name
              /\ events.jdk[m].kind = "fetch" /\ ~events.jdk[m].ok
         /\ \E m \in 1..(n - 1) :
              /\ events.jdk[m].name = Candidates[2].name
              /\ events.jdk[m].kind = "install" /\ ~events.jdk[m].ok

JdkHardFailure ==
    /\ Len(ran) = 3 /\ ~ran[3].ok
    /\ ran[3].why \in {"jdk-download", "jdk-install"}

\* C4: the provisioning step fails for want of a JDK only when every candidate
\* of the list has been attempted and has failed and no install succeeded; in
\* particular a candidate whose fetch succeeded and whose install failed does
\* not end the acquisition while candidates remain.
C4_HardFailureOnlyWhenExhausted ==
    JdkHardFailure =>
        /\ Candidates # <<>> =>
             \A j \in 1..Len(Candidates) :
                 FailedBefore(Candidates[j].name, Len(events.jdk) + 1)
        /\ \A n \in 1..Len(events.jdk) : ~InstalledOk(n)

C4_Witness ==
    /\ JdkHardFailure /\ Len(Candidates) = 3
    /\ events.jdk[1].kind = "fetch" /\ events.jdk[1].ok
    /\ events.jdk[1].name = Candidates[1].name
    /\ events.jdk[2].kind = "install" /\ ~events.jdk[2].ok
    /\ Len(events.jdk) > 3

\* C9: when toolchains.xml exists and cannot be parsed, the merge replaces it
\* by a document whose only entry is the new one, raises nothing, and the
\* configuration step does not fail on its account.
C9_MalformedRegistryReplaced ==
    (hist.op = "config" /\ hist.regBefore.st = "malformed") =>
        /\ toolchains = RegDoc(<<TemplateEntry(ctx.java_version, ctx.jdk_home)>>)
        /\ ~hist.mergeRaised
        /\ ran[4].ok \/ hist.vscodeRaised

C9_Witness ==
    /\ hist.op = "config" /\ hist.regBefore.st = "malformed"
    /\ pc = "end" /\ ran[4].ok

\* ---------------------------------------------------------------- the fetcher
\* C5: download_with_retries makes at most `attempts` attempts, one after the
\* other; every attempt before the last one made has failed; it returns
\* success exactly when the last attempt made succeeded, and failure only
\* after exactly `attempts` failed attempts.
C5_BoundedRetries ==
    hist.op = "download" =>
        LET r == hist.res
            n == hist.attempts
        IN  /\ r.made <= n
            /\ \A i \in 1..(r.made - 1) : hist.outs[i] # "ok"
            /\ r.ok => (r.made >= 1 /\ hist.outs[r.made] = "ok")
            /\ ~r.ok => (r.made = n /\ \A i \in 1..n : hist.outs[i] # "ok")
            /\ Len(r.sleeps) = (IF r.ok THEN r.made - 1 ELSE r.made)

C5_Witness ==
    /\ hist.op = "download" /\ hist.attempts = 3
    /\ hist.res.ok /\ hist.res.made = 2 /\ hist.outs[3] = "ok"

\* ---------------------------------------------------------------- the registry
Declares(e, v) == e.tag = "toolchain" /\ e.hasProv /\ e.version = v

Declaring(es, v) == { i \in 1..Len(es) : Declares(es[i], v) }

\* C6: starting from no toolchains.xml, after any sequence of merges the
\* registry holds at most one entry per version; a merge for a version that is
\* already there with another home sets that entry's jdkHome and adds no entry.
C6_OneEntryPerVersion ==
    (hist.op = "merge" /\ hist.start = RegAbsent) =>
        /\ toolchains.st = "doc"
        /\ \A v \in MergeVersions : Cardinality(Declaring(toolchains.entries, v)) <= 1
        /\ \E i \in Declaring(toolchains.entries, hist.version) :
               toolchains.entries[i].hasHome /\ toolchains.entries[i].home = hist.home
        /\ (hist.before.st = "doc" /\ Declaring(hist.before.entries, hist.version) # {}) =>
               Len(toolchains.entries) = Len(hist.before.entries)

C6_Witness ==
    /\ hist.op = "merge" /\ hist.start = RegAbsent /\ hist.before.st = "doc"
    /\ \E i \in Declaring(hist.before.entries, hist.version) :
           hist.before.entries[i].home # hist.home

\* C7: on any well-formed registry a merge appends an entry if and only if no
\* existing entry declares the target version; when some entry declares it,
\* whatever else that entry has or lacks, the number of entries is unchanged
\* and that entry's jdkHome is the new home.
C7_AppendIffNotDeclared ==
    (hist.op = "merge" /\ hist.before.st = "doc") =>
        LET before == hist.before.entries
            after == toolchains.entries
            declared == Declaring(before, hist.version)
        IN  /\ toolchains.st = "doc"
            /\ (Len(after) = Len(before) + 1) <=> (declared = {})
            /\ declared # {} =>
                 /\ Len(after) = Len(before)
                 /\ \E i \in declared : after[i].hasHome /\ after[i].home = hist.home

\* C8: a merge leaves every entry that does not declare the target version as
\* it was: same content, same jdkHome, same position among the entries.
C8_OtherEntriesUntouched ==
    (hist.op = "merge" /\ hist.before.st = "doc") =>
        LET before == hist.before.entries
            after == toolchains.entries
        IN  /\ toolchains.st = "doc"
            /\ Len(after) >= Len(before)
            /\ \A i \in 1..Len(before) :
                   ~Declares(before[i], hist.version) => after[i] = before[i]

C8_Witness ==
    /\ hist.op = "merge" /\ hist.before.st = "doc"
    /\ \E i \in 1..Len(hist.before.entries) :
         /\ hist.before.entries[i].tag = "toolchain" /\ hist.before.entries[i].hasProv
         /\ hist.before.entries[i].hasHome
         /\ hist.before.entries[i].version # hist.version
    /\ Declaring(hist.before.entries, hist.version) # {}

\* ---------------------------------------------------------------- the editor settings
\* The six keys the settings merge is documented to assign.
DocumentedKeys ==
    { "java.configuration.updateBuildConfiguration", "java.compile.nullAnalysis.mode",
      "java.jdt.ls.java.home", "maven.executable.path",
      "maven.executable.preferMavenWrapper", "java.configuration.maven.userSettings" }

KeptOutside(keys) ==
    (hist.op = "update" /\ hist.before.st = "object" /\ ~hist.raised) =>
        /\ vscode["root"].st = "object"
        /\ \A k \in DOMAIN hist.before.data \ keys :
               /\ k \in DOMAIN vscode["root"].data
               /\ vscode["root"].data[k] = hist.before.data[k]

\* C10 as stated: update_vscode_settings leaves every pre-existing key outside
\* the six documented keys present with its original value.
C10_KeysOutsideDocumentedKept == KeptOutside(DocumentedKeys)

\* C10 amended: every pre-existing key other than the keys the function
\* assigns (the six documented ones and java.jdt.ls.lombokSupport.enabled) and
\* the legacy key java.home is kept with its original value; java.home is
\* removed and java.jdt.ls.lombokSupport.enabled is set to true.
C10_KeysOutsideAssignedKept ==
    /\ KeptOutside(DOMAIN AssignedSettings(hist.home, MavenBinA) \cup {"java.home"})
    /\ (hist.op = "update" /\ ~hist.raised) =>
          /\ "java.home" \notin DOMAIN vscode["root"].data
          /\ vscode["root"].data["java.jdt.ls.lombokSupport.enabled"] = <<"true">>

C10_Witness ==
    /\ hist.op = "update" /\ hist.before.st = "object" /\ ~hist.raised
    /\ {"editor.tabSize", "java.home", "java.jdt.ls.lombokSupport.enabled"}
           \subseteq DOMAIN hist.before.data
    /\ hist.before.data["java.jdt.ls.lombokSupport.enabled"] = <<"false">>

StartedEmpty ==
    /\ hist.op = "update" /\ ~hist.raised
    /\ hist.before \in {SetAbsent, SetMalformed, SetObject(<<>>)}

\* C11 as stated: starting from an empty or absent settings file, the object
\* update_vscode_settings writes has the six documented keys and no other key.
C11_WritesExactlyDocumentedKeys ==
    StartedEmpty => DOMAIN vscode["root"].data = DocumentedKeys

\* C11 amended: starting from an empty or absent settings file, the object
\* written has exactly seven keys, the six documented ones and
\* java.jdt.ls.lombokSupport.enabled (set to true); the legacy key java.home is
\* not among them, and the two path keys hold the JDK home and the mvn path
\* rendered below ${userHome}.
C11_WritesSevenKeys ==
    StartedEmpty =>
        LET data == vscode["root"].data
        IN  /\ vscode["root"].st = "object"
            /\ DOMAIN data = DocumentedKeys \cup {"java.jdt.ls.lombokSupport.enabled"}
            /\ data["java.jdt.ls.lombokSupport.enabled"] = <<"true">>
            /\ data["maven.executable.preferMavenWrapper"] = <<"true">>
            /\ data["java.compile.nullAnalysis.mode"] = <<"automatic">>
            /\ data["java.configuration.updateBuildConfiguration"] = <<"automatic">>
            /\ data["java.jdt.ls.java.home"] = as_vscode_user_path(hist.home)
            /\ data["maven.executable.path"] = as_vscode_user_path(MavenBinA)
            /\ data["java.configuration.maven.userSettings"] =
                   <<"${userHome}", ".m2", "settings.xml">>

C11_Witness == StartedEmpty /\ hist.before = SetAbsent /\ hist.home = HomeB

\* C12: in the configuration step an error while merging the registry or while
\* ensuring the settings.xml skeleton does not make the step fail, and the
\* editor settings are still written; an error while writing the editor
\* settings makes the step return failure, the chain ends and the project is
\* not reported as configured.
C12_OnlyEditorSettingsFailureFailsStep ==
    /\ hist.op = "config" =>
         /\ Len(ran) = 4
         /\ ran[4].ok <=> ~hist.vscodeRaised
         /\ ~hist.vscodeRaised => vscode[ctx.project_dir].st = "object"
         /\ hist.vscodeRaised => (pc = "end" /\ ~ChainOk)
    /\ (mainPc = "loop" /\ pc = "none" /\ projIdx > 1 /\ last.vscode.st = "nonobject") =>
         /\ ~last.ok
         /\ \A i \in 1..Len(reported) : reported[i] # last.project

C12_Witness ==
    /\ hist.op = "config" /\ hist.mergeRaised /\ hist.settingsRaised
    /\ ran[4].ok /\ toolchains = RegAbsent /\ settingsXml = "absent"

UnsupportedPlatform ==
    \/ osarch[1] \notin {"windows", "linux", "macos"}
    \/ osarch[2] \notin {"x86_64", "aarch64"}

\* C13: when the detected OS is outside {windows, linux, macos} or the detected
\* architecture is outside {x86_64, aarch64}, whatever the installation root
\* holds, the configuration step never runs, the registry and the editor
\* settings are never written, and no project is reported as configured.
C13_UnsupportedPlatformStopsChain ==
    UnsupportedPlatform =>
        /\ pc # "config"
        /\ \A i \in 1..Len(ran) : ran[i].step # "config"
        /\ hist.op # "config"
        /\ toolchains.st # "doc" \/ \A i \in 1..Len(toolchains.entries) :
                                        toolchains.entries[i] = ForeignEntry
        /\ \A p \in Projects : vscode[p].st # "object" \/ "maven.executable.path" \notin DOMAIN vscode[p].data
        /\ reported = <<>>
        /\ \A i \in 1..Len(processed) : processed[i].how # "ok"

NoVersionProject ==
    pc # "none" /\ parse_java_version_from_pom(pom[ctx.project_dir]) = ""

\* C14: when no version can be resolved from the pom, the chain fails at its
\* first step and the processing of that project creates, changes and deletes
\* nothing below HOME: no directory is prepared, nothing is fetched, nothing is
\* extracted, and no later step runs.
C14_NoVersionNoFilesystemChange ==
    NoVersionProject =>
        /\ pc \in {"version", "end"}
        /\ pc = "end" => (Len(ran) = 1 /\ ran[1].step = "version" /\ ~ran[1].ok)
        /\ fs = events.tree
        /\ events.jdk = <<>> /\ events.mvn = <<>>
        /\ hist.op # "config"

C14_Witness ==
    /\ NoVersionProject /\ pc = "end"
    /\ events.tree = PopulatedFs

ProcessedProjects == [i \in 1..Len(processed) |-> processed[i].project]

\* C15: main() processes every discovered project exactly once, in discovery
\* order, however the earlier ones ended: while the loop runs, the projects
\* done are the first ones of the list and the one under way is the next; the
\* run ends only when the projects done are the whole list; a step failure or
\* an exception in one project neither skips a later one nor ends the run.
C15_EveryProjectProcessedOnceInOrder ==
    /\ Len(processed) <= Len(discovered)
    /\ ProcessedProjects = SubSeq(discovered, 1, Len(processed))
    /\ mainPc = "loop" => projIdx = Len(processed) + 1
    /\ pc # "none" => (mainPc = "loop" /\ ctx.project_dir = discovered[Len(processed) + 1])
    /\ mainPc = "idle" => ProcessedProjects = discovered

C15_Witness ==
    /\ mainPc = "idle" /\ discovered = <<"root", "sub">>
    /\ processed[1].how = "raised" /\ processed[2].how = "raised"

\* What jdk-<v> holds besides the Maven directory.
JdkChildren(F, v) == { ch \in Iterdir(F, jdk_base(v)) : Name(ch) # "mvn-custom" }

LatestInstall(n) ==
    /\ events.jdk[n].kind = "install"
    /\ \A m \in (n + 1)..Len(events.jdk) : events.jdk[m].kind # "install"

\* C16: for every major version, whatever JDK install attempts have been made
\* (successful, failed, fallback), jdk-<major> holds at most one directory
\* besides mvn-custom, hence at most one JDK home; and after an install
\* attempt, everything in jdk-<major> besides mvn-custom comes from the archive
\* of that attempt, so a successful install leaves nothing an earlier attempt
\* extracted.
C16_AtMostOneJdkHome ==
    /\ \A v \in {"21", "22"} :
         /\ Cardinality(JdkChildren(fs, v)) <= 1
         /\ Cardinality({ h \in HomesAtDepth1(fs, jdk_base(v)) : Name(h) # "mvn-custom" }) <= 1
    /\ \A n \in 1..Len(events.jdk) :
         LatestInstall(n) =>
             /\ \A ch \in JdkChildren(fs, ctx.java_version) : Name(ch) = events.jdk[n].name
             /\ events.jdk[n].ok => JdkChildren(fs, ctx.java_version) # {}

C16_Witness ==
    /\ pc = "maven" /\ Len(Candidates) = 3
    /\ \E n \in 1..Len(events.jdk) :
         /\ LatestInstall(n) /\ events.jdk[n].ok
         /\ \E m \in 1..(n - 1) :
              /\ events.jdk[m].kind = "install" /\ ~events.jdk[m].ok
              /\ events.jdk[m].name # events.jdk[n].name
    /\ Exists(events.tree, Child(jdk_base("22"), "mvn-custom"))

\* The JDK homes jdk-<version> held when the project started: its children,
\* the Maven directory aside, that have a bin subdirectory.
ExistingJdkHomes ==
    { h \in HomesAtDepth1(events.tree, jdk_base(ctx.java_version)) : Name(h) # "mvn-custom" }

\* C17: if jdk-<major> holds a JDK home (a directory with a bin subdirectory)
\* when the provisioning step starts, the step fetches no JDK, extracts no
\* JDK, and the JDK home it stores in the context is that existing home.
C17_ExistingJdkReused ==
    (pc \in {"join", "install", "fallback", "maven", "config", "end"}
        /\ Len(ran) >= 2 /\ ran[2].ok /\ ExistingJdkHomes # {}) =>
        /\ events.jdk = <<>>
        /\ pc \notin {"install", "fallback"}
        /\ (Len(ran) >= 3 /\ ran[3].ok) => ctx.jdk_home \in ExistingJdkHomes

\* A path below HOME as the editor settings are expected to show it.
Portable(path) == <<"${userHome}">> \o Tail(path)

ConfiguredAsDescribed ==
    /\ toolchains.st = "doc"
    /\ \E i \in Declaring(toolchains.entries, ctx.java_version) :
           toolchains.entries[i].hasHome /\ toolchains.entries[i].home = ctx.jdk_home
    /\ Below(ctx.jdk_home, jdk_base(ctx.java_version))
    /\ Parent(ctx.maven_bin) = jdk_base(ctx.java_version) \o <<"mvn-custom", "bin">>
    /\ vscode[ctx.project_dir].st = "object"
    /\ vscode[ctx.project_dir].data["java.jdt.ls.java.home"] = Portable(ctx.jdk_home)
    /\ vscode[ctx.project_dir].data["maven.executable.path"] = Portable(ctx.maven_bin)

\* C18 as stated: whenever a project's chain returns success, the registry has
\* an entry for the resolved version whose jdkHome is the context's JDK home,
\* that home lies under jdk-<major>, the mvn path lies in
\* jdk-<major>/mvn-custom/bin, and the project's settings.json holds both
\* paths.
C18_SuccessMeansConfigured ==
    (pc = "end" /\ ChainOk) => ConfiguredAsDescribed

\* C18 amended: the same, for a chain that returns success and whose registry
\* merge raised no error; when the merge raised (and was logged), the chain
\* still returns success, the registry is left as it was, and the other
\* conjuncts hold.
C18_SuccessMeansConfiguredUnlessMergeRaised ==
    (pc = "end" /\ ChainOk) =>
        /\ hist.op = "config"
        /\ ~hist.mergeRaised => ConfiguredAsDescribed
        /\ hist.mergeRaised =>
             /\ toolchains = hist.regBefore
             /\ Below(ctx.jdk_home, jdk_base(ctx.java_version))
             /\ Parent(ctx.maven_bin) = jdk_base(ctx.java_version) \o <<"mvn-custom", "bin">>
             /\ vscode[ctx.project_dir].data["java.jdt.ls.java.home"] = Portable(ctx.jdk_home)
             /\ vscode[ctx.project_dir].data["maven.executable.path"] = Portable(ctx.maven_bin)

C18_Witness ==
    /\ pc = "end" /\ ChainOk /\ ~hist.mergeRaised
    /\ hist.regBefore = RegDoc(<<ForeignEntry>>) /\ Len(toolchains.entries) = 2

\* C21: ~/.m2/settings.xml is written only when it does not exist, and what is
\* written then is the skeleton; a settings.xml that exists, whatever it holds
\* (user content, nothing at all, an earlier skeleton), is left as it is by
\* every step of every run.
C21_SettingsXmlWrittenOnlyWhenAbsent ==
    [][/\ settingsXml # "absent" => settingsXml' = settingsXml
       /\ settingsXml' # settingsXml => (settingsXml' = "skeleton" /\ pc = "config")]_vars

C21_Witness ==
    /\ hist.op = "config" /\ ~hist.settingsRaised
    /\ settingsXml = "empty" /\ last.valid /\ last.settingsXml = "empty"

AllEvents == events.jdk \o events.mvn

OnWorker(e) == e.by \in {"jdk-worker", "mvn-worker"}

Installs(e) == e.kind \in {"install", "mvn-install"}

\* C22: in the provisioning step the worker threads do nothing but fetch (or
\* find the build-tool archive already fetched); every extraction and
\* installation, of the JDK and of the build tool, is done by the orchestrating
\* flow, and none has started while a submitted fetch task is still running.
C22_WorkersOnlyFetch ==
    /\ \A i \in 1..Len(AllEvents) :
          /\ OnWorker(AllEvents[i]) => AllEvents[i].kind \in {"fetch", "reuse"}
          /\ Installs(AllEvents[i]) => AllEvents[i].by = "main"
    /\ (jdkW.st = "run" \/ mvnW.st = "run") =>
          /\ pc = "join"
          /\ \A i \in 1..Len(AllEvents) : OnWorker(AllEvents[i])
    /\ pc \in {"install", "fallback", "maven"} => (jdkW.st # "run" /\ mvnW.st # "run")

C22_Witness ==
    /\ pc = "maven" /\ jdkW.st = "done" /\ mvnW.st = "done"
    /\ \E i \in 1..Len(events.jdk) : events.jdk[i].kind = "fetch" /\ events.jdk[i].by = "jdk-worker"
    /\ \E i \in 1..Len(events.jdk) : events.jdk[i].kind = "install" /\ events.jdk[i].by = "main"
    /\ \E i \in 1..Len(events.mvn) : events.mvn[i].kind = "fetch" /\ events.mvn[i].by = "mvn-worker"

\* The paths that are not the same in F and G.
Changed(F, G) ==
    { p \in F.dirs \cup G.dirs \cup DOMAIN F.files \cup DOMAIN G.files :
        \/ (p \in F.dirs) # (p \in G.dirs)
        \/ ReadFile(F, p) # ReadFile(G, p) }

\* A step taken by one of the two worker threads.
WorkerStep ==
    \/ jdkW.st = "run" /\ jdkW' # jdkW
    \/ mvnW.st = "run" /\ mvnW' # mvnW

\* The archive a worker that has just finished hands back.
FetchedBy(w) == IF w.st = "done" /\ w.res # <<>> THEN { w.res[1] } ELSE {}

\* C23 as stated: no step of a worker thread creates, writes or deletes
\* anything at or below ~/.jaenvtix or ~/.m2.
C23_WorkersLeaveRootsAlone ==
    [][WorkerStep =>
           \A p \in Changed(fs, fs') :
               ~IsPrefix(JAENVTIX_HOME, p) /\ ~IsPrefix(M2_DIR, p)]_vars

\* C23 amended: a step of a worker thread changes nothing at or below ~/.m2
\* and nothing of the installation root outside its scratch directory
\* ~/.jaenvtix/temp; in scratch it creates or rewrites regular files directly
\* in temp (the archive it fetches) and nothing else: it deletes nothing and
\* creates no directory, temp itself being there since the environment step.
\* The registry, settings.xml and the editor settings are not touched either.
C23_WorkersWriteOnlyScratchArchives ==
    [][WorkerStep =>
           /\ \A p \in Changed(fs, fs') :
                  /\ Parent(p) = TEMP_DIR
                  /\ p \in DOMAIN fs'.files
                  /\ ~IsPrefix(M2_DIR, p)
           /\ FetchedBy(jdkW') \cup FetchedBy(mvnW') \subseteq DOMAIN fs'.files
           /\ TEMP_DIR \in fs.dirs
           /\ UNCHANGED << toolchains, settingsXml, vscode >>]_vars

C23_Witness ==
    /\ pc = "join" /\ jdkW.st = "done" /\ mvnW.st = "done"
    /\ jdkW.res # <<>> /\ mvnW.res # <<>>
    /\ {jdkW.res[1], mvnW.res[1]} \subseteq DOMAIN fs.files
    /\ Parent(jdkW.res[1]) = TEMP_DIR /\ Parent(mvnW.res[1]) = TEMP_DIR

\* Whether jdk-<v> holds a JDK home: a directory with a bin subdirectory, at
\* the depth the installer accepts, that is not part of the Maven directory.
JdkPresent(F, v) ==
    \E q \in F.dirs : /\ Below(q, jdk_base(v)) /\ Name(q) = "bin"
                      /\ ~IsPrefix(Child(jdk_base(v), "mvn-custom"), q)

MavenPresent(F, v, os) ==
    Exists(F, jdk_base(v) \o <<"mvn-custom", "bin", mvn_exe_name(os)>>)

\* C24: the provisioning step submits the JDK fetch if and only if jdk-<v>
\* holds no JDK home, and the build-tool fetch if and only if
\* jdk-<v>/mvn-custom/bin holds no mvn executable; so only the missing runtime
\* is fetched, and nothing is fetched when both are there.
C24_FetchIffMissing ==
    pc = "join" =>
        /\ (jdkW.st # "idle") <=> ~JdkPresent(fs, ctx.java_version)
        /\ (mvnW.st # "idle") <=> ~MavenPresent(fs, ctx.java_version, ctx.os_name)

MvnCustom(v) == Child(jdk_base(v), "mvn-custom")

\* What F holds at and below path r.
Subtree(F, r) ==
    [dirs |-> { q \in F.dirs : IsPrefix(r, q) },
     files |-> [q \in { x \in DOMAIN F.files : IsPrefix(r, x) } |-> F.files[q]]]

\* What jdk-<v> holds in F, the Maven directory and its contents aside.
JdkContent(F, v) ==
    { q \in F.dirs \cup DOMAIN F.files :
        Below(q, jdk_base(v)) /\ ~IsPrefix(MvnCustom(v), q) }

\* The members an archive with top-level directory `top` leaves in jdk-<v>
\* when opened with layout k.
Unpacked(v, top, k) ==
    { jdk_base(v) \o d :
        d \in IF k = "corrupt" THEN PartialDirs([kind |-> k, top |-> top])
               ELSE ArchiveDirs([kind |-> k, top |-> top]) }

\* A step in which install_jdk_from_archive has run.
JdkInstallStep ==
    /\ pc \in {"install", "fallback"}
    /\ Len(events'.jdk) > Len(events.jdk)
    /\ events'.jdk[Len(events'.jdk)].kind = "install"

\* C25: a call of install_jdk_from_archive, successful or not, leaves
\* jdk-<major>/mvn-custom and everything below it exactly as it was, and
\* leaves in jdk-<major> besides mvn-custom only what the archive unpacked:
\* every entry that was there before the call has been removed.
C25_JdkInstallSparesOnlyMvnCustom ==
    [][JdkInstallStep =>
           LET v == ctx.java_version
               top == events'.jdk[Len(events'.jdk)].name
           IN  /\ Subtree(fs', MvnCustom(v)) = Subtree(fs, MvnCustom(v))
               /\ \E k \in JdkLayouts : JdkContent(fs', v) = Unpacked(v, top, k)]_vars

C25_Witness ==
    /\ pc \in {"fallback", "end"} /\ ctx.java_version = "22"
    /\ events.jdk # <<>> /\ LatestInstall(Len(events.jdk)) /\ ~events.jdk[Len(events.jdk)].ok
    /\ Child(MvnCustom("22"), "lib") \in events.tree.dirs \cap fs.dirs
    /\ JdkContent(events.tree, "22") \ JdkContent(fs, "22") # {}

\* ---------------------------------------------------------------- the catalog
Pinned == {"8", "11", "17"}

\* Position of candidate d in list cs (0 when it is not there).
PosIn(cs, d) == IF \E i \in 1..Len(cs) : cs[i] = d
                THEN Min({ i \in 1..Len(cs) : cs[i] = d }) ELSE 0

\* C26: when the static table has an entry for (version, OS, arch),
\* select_jdk_dist returns that entry's list as it is; otherwise it returns
\* the Oracle candidate (for a version outside 8, 11, 17), the Corretto
\* candidate and the Temurin candidate, in this order, each one present exactly
\* when its vendor has a mapping for the OS/arch, and nothing else; no list
\* holds a candidate twice.
C26_StaticFirstElseSynthesized ==
    hist.op = "select" =>
        LET v == hist.key[1]
            os == hist.key[2]
            arch == hist.key[3]
            res == hist.res
            static == JDK_URLS(v, os, arch)
            ora == IF v \in Pinned THEN <<>> ELSE OracleLatestDist(v, os, arch)
            cor == CorrettoLatestDist(v, os, arch)
            tem == TemurinLatestDist(v, os, arch)
            at(ds) == PosIn(res, ds[1])
        IN  /\ \A i, j \in 1..Len(res) : i # j => res[i] # res[j]
            /\ static # <<>> => res = static
            /\ static = <<>> =>
                  /\ Len(res) = Len(ora) + Len(cor) + Len(tem)
                  /\ ora # <<>> => at(ora) = 1
                  /\ cor # <<>> => at(cor) = Len(ora) + 1
                  /\ tem # <<>> => at(tem) = Len(ora) + Len(cor) + 1

C26_Witness ==
    /\ hist.op = "select" /\ hist.key = <<"22", "windows", "aarch64">>
    /\ Len(hist.res) = 2
    /\ hist.res[1].name = "Corretto22" /\ hist.res[2].name = "Temurin22"

\* The versions ensure_dirs prepares a directory for and the static table lists.
LtsVersions == {"8", "11", "17", "21", "25"}

\* C27: for an LTS version on a supported OS and architecture, when the first
\* candidate select_jdk_dist returns is the Oracle artifact, the Temurin
\* candidate for the same version and platform comes later in the list.
C27_OracleFirstHasTemurinFallback ==
    (/\ hist.op = "select"
     /\ hist.key[1] \in LtsVersions
     /\ hist.key[2] \in {"windows", "linux", "macos"}
     /\ hist.key[3] \in {"x86_64", "aarch64"}
     /\ hist.res # <<>>
     /\ <<hist.res[1]>> = OracleLatestDist(hist.key[1], hist.key[2], hist.key[3])) =>
        \E j \in 2..Len(hist.res) :
            <<hist.res[j]>> = TemurinLatestDist(hist.key[1], hist.key[2], hist.key[3])

\* ---------------------------------------------------------------- the scratch directory
\* What F holds below ~/.jaenvtix/temp.
TempContent(F) == { q \in F.dirs \cup DOMAIN F.files : Below(q, TEMP_DIR) }

IsMvnCustom(path) == path # <<>> /\ Name(path) = "mvn-custom"

\* C29: in every state of every sequence of runs, the JDK home of the context
\* is not a directory mvn-custom, no registry entry has a mvn-custom directory
\* as its jdkHome, and no project's editor settings name one as
\* java.jdt.ls.java.home.
C29_JdkHomeNeverMvnCustom ==
    /\ ~IsMvnCustom(ctx.jdk_home)
    /\ \A i \in 1..Len(toolchains.entries) : ~IsMvnCustom(toolchains.entries[i].home)
    /\ \A p \in Projects :
          (vscode[p].st = "object" /\ "java.jdt.ls.java.home" \in DOMAIN vscode[p].data) =>
              ~IsMvnCustom(vscode[p].data["java.jdt.ls.java.home"])

\* ---------------------------------------------------------------- the build-tool archive
\* C30: when a project's build-tool fetch is skipped because the archive is
\* found in scratch, that file is a complete download: it is not what a fetch
\* whose attempts all failed has left there.
C30_ReuseOnlyCompleteArchive ==
    \A i \in 1..Len(events.mvn) :
        events.mvn[i].kind = "reuse" =>
            /\ mvnW.res # <<>>
            /\ ReadFile(fs, mvnW.res[1]).kind # "partial"

\* ---------------------------------------------------------------- the context's runtimes
RuntimesSet == { f \in {"jdk_home", "maven_home", "maven_bin"} : ctx[f] # <<>> }

ProvisionFailed == Len(ran) >= 3 /\ ~ran[3].ok

\* C31: the context's jdk_home, maven_home and maven_bin are set all three or
\* not at all, and they are set only once the provisioning step has returned
\* success; when the step returns failure, also when the JDK was installed
\* and only the build tool's fetch or install failed, all three are unset.
C31_RuntimesSetTogetherOnSuccess ==
    /\ RuntimesSet \in { {}, {"jdk_home", "maven_home", "maven_bin"} }
    /\ RuntimesSet # {} => (Len(ran) >= 3 /\ ran[3].ok)
    /\ (Len(ran) >= 3 /\ ran[3].ok) => RuntimesSet # {}
    /\ ProvisionFailed => RuntimesSet = {}

C31_Witness ==
    /\ pc = "end" /\ ProvisionFailed /\ ran[3].why = "maven-install"
    /\ prov.jdk_home # <<>> /\ prov.jdk_home \in fs.dirs
    /\ \E i \in 1..Len(events.jdk) : events.jdk[i].kind = "install" /\ events.jdk[i].ok
    /\ RuntimesSet = {}

\* C32: whenever the provisioning step has returned success, the JDK home of
\* the context is a directory on disk with a bin subdirectory, and the mvn
\* path of the context (mvn-custom/bin/mvn or mvn.cmd) exists on disk.
C32_ProvisionedRuntimesUsable ==
    (Len(ran) >= 3 /\ ran[3].ok) =>
        /\ IsDir(fs, ctx.jdk_home)
        /\ Exists(fs, Child(ctx.jdk_home, "bin"))
        /\ Name(ctx.maven_bin) = mvn_exe_name(ctx.os_name)
        /\ Exists(fs, ctx.maven_bin)

\* ---------------------------------------------------------------- the version resolver
\* The texts the four lookup rules find, in priority order.
RuleTexts(pm) ==
    << Strip(pm.javaVersion), Strip(pm.release), Strip(pm.compilerVersion),
       Strip(pm.toolchain) >>

MatchingRules(pm) == { i \in 1..4 : RuleTexts(pm)[i] # <<>> }

\* C19: parse_java_version_from_pom applies its four rules in priority order
\* (java.version property, compiler release, compiler compilerVersion,
\* jdkToolchain version) and returns the normalized value of the first rule
\* that matches; it returns no result only when no rule matches or the pom
\* cannot be parsed.
C19_FirstMatchingRuleWins ==
    hist.op = "parse" =>
        LET pm == pom["root"]
            hit == MatchingRules(pm)
        IN  /\ (pm.parsable /\ hit # {}) =>
                   hist.res = normalize_java_version(RuleTexts(pm)[Min(hit)])
            /\ hist.res = "" <=> (~pm.parsable \/ hit = {})

\* ---------------------------------------------------------------- the normalizer
RECURSIVE DigitRun(_)
\* The whole run of digits cs starts with.
DigitRun(cs) ==
    IF cs # <<>> /\ cs[1] \in Digits THEN <<cs[1]>> \o DigitRun(Tail(cs)) ELSE <<>>

\* Whether v reads 1.N with N a run of digits (up to a further dot, if any).
Legacy(v) ==
    Len(v) >= 3 /\ v[1] = "1" /\ v[2] = "." /\ IsDigitRun(UpTo(SubSeq(v, 3, Len(v)), "."))

\* C20: normalize_java_version maps 1.N to N, maps any other value that starts
\* with a digit to its whole leading run of digits, and returns no result for
\* a value that does not start with a digit (surrounding blanks aside).
C20_WholeLeadingDigitRun ==
    hist.op = "normalize" =>
        LET v == Strip(hist.raw)
        IN  hist.res = IF Legacy(v) THEN Join(UpTo(SubSeq(v, 3, Len(v)), "."))
                       ELSE Join(DigitRun(v))

====
